---- MODULE Spec2Model ----
(***************************************************************************)
(* State-machine model of go-sphere/telegram-bot: the middleware chain,    *)
(* the single-flight callback deduplicator, the group-message (mention)    *)
(* filter with its bot-identity cache, BroadcastMessage and                *)
(* RetryOnTooManyRequestsError.                                            *)
(*                                                                         *)
(* Every subsystem has its own specification (SpecRetry, SpecBroadcast,    *)
(* SpecChain, SpecSF, SpecFilter).  A specification leaves the variables   *)
(* of the other subsystems at their idle values.                           *)
(***************************************************************************)
EXTENDS Integers, Sequences, FiniteSets, TLC

VARIABLES
    \* ---- RetryOnTooManyRequestsError (part_003:197-212)
    rMax,       \* maxRetries of the outermost call
    rLeft,      \* maxRetries of the current (recursive) call
    rOut,       \* the outcomes send() has produced so far, in order
    rSlept,     \* seconds slept so far
    rRes,       \* the value returned by the outermost call
    rPc,        \* "call" | "done"
    \* ---- BroadcastMessage (part_003:165-192)
    bTotal,     \* len(data)
    bStop,      \* opts.terminalOnSendError
    bProgress,  \* opts.progress != nil
    bBurst,     \* the limiter's burst size
    bTokens,    \* tokens the limiter holds now
    bDeadline,  \* ctx carries a deadline earlier than the next token
    bCtxDone,   \* ctx has been cancelled
    bI,         \* loop index i
    bErrCount,  \* errCount
    bReports,   \* calls of opts.progress, in order
    bSends,     \* indices send() was invoked for, in order
    bSendOut,   \* what each invocation of send() returned, in order
    bCancelAt,  \* number of sends invoked when ctx was cancelled (-1: never)
    bRes,       \* the value BroadcastMessage returned
    bPc,        \* "loop" | "wait" | "blocked" | "woken" | "send" | "done"
    \* ---- WithMiddleware and one dispatch through it (part_001:33-45)
    cMws,       \* the middleware list passed to WithMiddleware
    cErrHandler,\* e != nil
    cHandler,   \* the composed handler: the frames from the outermost to h
    cDepth,     \* the frame the dispatch is in (0: none)
    cRet,       \* the value the frame below returned
    cLog,       \* calls and returns of the frames, in order
    cHandled,   \* the errors e was invoked with, in order
    cPc,        \* "bind" | "ready" | "down" | "up" | "boundary" | "done"
    \* ---- NewSingleFlightMiddleware (part_001:50-64)
    sfUpd,      \* per caller: the update being dispatched
    sfPc,       \* per caller: "idle" | "running" | "waiting" | "done"
    sfMap,      \* singleflight.Group: key -> index of the in-flight call (0: none)
    sfCalls,    \* the calls the group has created: [key, err, done]
    sfJoin,     \* per caller: the call its Do is attached to (0: none)
    sfRet,      \* per caller: the value the middleware returned
    sfExec,     \* executions of next: [key, res] (res NoResult while running)
    sfMine,     \* per caller: the execution of next it performs (0: none)
    sfSaw,      \* per caller: the execution in flight for its key when it arrived
    \* ---- NewGroupMessageFilterMiddleware (part_001:90-198)
    fTrim,      \* trimMention
    fUser,      \* the cached *models.User (NoUser: nil)
    fTs,        \* ts: when fUser was fetched
    fNow,       \* the clock
    fCalls,     \* calls of the "getMe" single-flight group: [val, err, done]
    fCur,       \* the call registered under "getMe" (0: none)
    fGetMe,     \* invocations of b.GetMe: [at, hadUser, ts, res, doneAt]
    fPc,        \* per dispatcher: "idle" | "getMe" | "wait" | "scan" | "done" | "panic"
    fOrig,      \* per dispatcher: the update as received
    fUpd,       \* per dispatcher: the update as it is now (the filter rewrites it)
    fJoin,      \* per dispatcher: the "getMe" call its Do is attached to (0: none)
    fMine,      \* per dispatcher: the GetMe invocation it made (0: none)
    fSaw,       \* per dispatcher: the GetMe invocation in flight when it arrived (0: none)
    fLooked,    \* per dispatcher: getBotInfo was called
    fIdent,     \* per dispatcher: the identity getBotInfo returned
    fDown,      \* per dispatcher: the update next was invoked with (NoUpdate: never)
    fRet,       \* per dispatcher: the value the filter returned
    fHandled,   \* per dispatcher: the errors the error handler was invoked with
    \* ---- NewApp, Bind*, and a dispatch through a bound route (part_002, part_000, auth.go)
    aGlobal,    \* opt.middlewares: the middlewares registered with AppendMiddlewares
    aErrHandler, \* opt.errorHandler: "default" | "custom" | "nil"
    aMws,       \* app.middlewares
    aRoute,     \* the middlewares passed to Bind* for the route
    aChain,     \* the frames of the composed handler, outermost first
    aPc,        \* "new" | "bind" | "ready" | "down" | "boundary" | "panic" | "crashed"
    aUpdate,    \* the update being dispatched: "message" | "callback"
    aDepth,     \* the frame of aChain that runs
    aCtx,       \* the context the running frame was called with
    aClaims,    \* what the auth extractor returned (NoResult: not called)
    aLog,       \* the frames invoked in this dispatch, each with its context
    aRet,       \* the value the composed handler returned
    aHandled,   \* the errors the error handler was invoked with in this dispatch
    aFault,     \* where a panic was raised in this dispatch ("none" | "frame" | "errorHandler")
    aDone,      \* the dispatches that are over
    aRecovered, \* the dispatches in which the recovery middleware recovered a panic
    \* ---- BindCommand and the routing of a message text (part_002:109-115)
    cmdHandlers, \* the handlers registered with the bot: [pattern, route]
    cmdPc,      \* "bind" | "ready" | "done"
    cmdText,    \* the text of the message being routed
    cmdInvoked, \* the route whose handler ran, or the default handler
    \* ---- the contexts of the callers of the single-flight middleware (part_001:50-64)
    sfCtxDone,  \* per caller: its context is cancelled
    \* ---- MarshalData and UnmarshalData (encoding.go:17-36)
    encRoute,   \* the route passed to MarshalData
    encPayload, \* the payload passed to MarshalData
    encData,    \* the callback data: MarshalData's result, or data from elsewhere
    encOut,     \* UnmarshalData's result: [route, v, err]
    encPc,      \* "start" | "marshalled" | "done" | "rawdone"
    \* ---- TmaAuth: GenerateToken and ParseToken (tmaauth/tma.go:19-85)
    tmaGenSecret,
                \* TmaAuth.token of the instance that generates
    tmaSecret,  \* TmaAuth.token of the instance that parses
    tmaExpIn,   \* TmaAuth.expIn of the instance that parses
    tmaNow,     \* the wall clock, in seconds
    tmaClaims,  \* the claims passed to GenerateToken, or nil
    tmaToken,   \* the token GenerateToken returned
    tmaOut,     \* the result of the last call: [claims, err]
    tmaPc,      \* "start" | "generated" | "failed" | "parsed"
    \* ---- contextWithValues and values.Value (part_003:223-257)
    vPrev,      \* the context passed to contextWithValues
    vData,      \* the map passed to contextWithValues: [isNil, entries]
    vCtx,       \* the context contextWithValues returned
    vWraps,     \* how many times contextWithValues was called
    vKey,       \* the key of the last lookup
    vOut,       \* the value the last lookup returned
    vPc,        \* "start" | "wrapped" | "looked"
    \* ---- Bot.middlewares and the bound routes (part_002:96-122)
    rtGlobal,   \* the middlewares registered with the options
    rtMws,      \* Bot.middlewares
    rtRoutes,   \* the handlers registered by BindCommand and BindCallback: [kind, own, chain]
    rtNoRoute,  \* Bot.noRouteHandler: [own, chain], or NoResult
    rtPc        \* "bind"

retryVars == <<rMax, rLeft, rOut, rSlept, rRes, rPc>>
broadcastVars == <<bTotal, bStop, bProgress, bBurst, bTokens, bDeadline, bCtxDone,
                   bI, bErrCount, bReports, bSends, bSendOut, bCancelAt, bRes, bPc>>
chainVars == <<cMws, cErrHandler, cHandler, cDepth, cRet, cLog, cHandled, cPc>>
sfVars == <<sfUpd, sfPc, sfMap, sfCalls, sfJoin, sfRet, sfExec, sfMine, sfSaw>>
filterVars == <<fTrim, fUser, fTs, fNow, fCalls, fCur, fGetMe, fPc, fOrig, fUpd,
                fJoin, fMine, fSaw, fLooked, fIdent, fDown, fRet, fHandled>>
appVars == <<aGlobal, aErrHandler, aMws, aRoute, aChain, aPc, aUpdate, aDepth, aCtx, aClaims,
             aLog, aRet, aHandled, aFault, aDone, aRecovered>>
cmdVars == <<cmdHandlers, cmdPc, cmdText, cmdInvoked>>
sfcVars == <<sfCtxDone>>
encVars == <<encRoute, encPayload, encData, encOut, encPc>>
tmaVars == <<tmaGenSecret, tmaSecret, tmaExpIn, tmaNow, tmaClaims, tmaToken, tmaOut, tmaPc>>
valVars == <<vPrev, vData, vCtx, vWraps, vKey, vOut, vPc>>
rtVars == <<rtGlobal, rtMws, rtRoutes, rtNoRoute, rtPc>>
vars == <<retryVars, broadcastVars, chainVars, sfVars, filterVars, appVars, cmdVars, sfcVars, encVars, tmaVars, valVars, rtVars>>

\* What the actions of one subsystem leave alone.
notRetryVars == <<broadcastVars, chainVars, sfVars, filterVars, appVars, cmdVars, sfcVars, encVars, tmaVars, valVars, rtVars>>
notBroadcastVars == <<retryVars, chainVars, sfVars, filterVars, appVars, cmdVars, sfcVars, encVars, tmaVars, valVars, rtVars>>
notChainVars == <<retryVars, broadcastVars, sfVars, filterVars, appVars, cmdVars, sfcVars, encVars, tmaVars, valVars, rtVars>>
notSFVars == <<retryVars, broadcastVars, chainVars, filterVars, appVars, cmdVars, sfcVars, encVars, tmaVars, valVars, rtVars>>
notFilterVars == <<retryVars, broadcastVars, chainVars, sfVars, appVars, cmdVars, sfcVars, encVars, tmaVars, valVars, rtVars>>
notAppVars == <<retryVars, broadcastVars, chainVars, sfVars, filterVars, cmdVars, sfcVars, encVars, tmaVars, valVars, rtVars>>
notCmdVars == <<retryVars, broadcastVars, chainVars, sfVars, filterVars, appVars, sfcVars, encVars, tmaVars, valVars, rtVars>>
notSfcVars == <<retryVars, broadcastVars, chainVars, sfVars, filterVars, appVars, cmdVars, encVars, tmaVars, valVars, rtVars>>
notEncVars == <<retryVars, broadcastVars, chainVars, sfVars, filterVars, appVars, cmdVars, sfcVars, tmaVars, valVars, rtVars>>
notTmaVars == <<retryVars, broadcastVars, chainVars, sfVars, filterVars, appVars, cmdVars, sfcVars, encVars, valVars, rtVars>>
notValVars == <<retryVars, broadcastVars, chainVars, sfVars, filterVars, appVars, cmdVars, sfcVars, encVars, tmaVars, rtVars>>
notRtVars == <<retryVars, broadcastVars, chainVars, sfVars, filterVars, appVars, cmdVars, sfcVars, encVars, tmaVars, valVars>>

(***************************************************************************)
(* Error values.  A Go error is modelled by a record; nil is Nil.          *)
(***************************************************************************)
Nil == [kind |-> "nil"]
NoResult == [kind |-> "none"]

\* Errors a user-supplied function (send, a handler) may return.
OtherErrors == {[kind |-> "other", id |-> 1], [kind |-> "other", id |-> 2]}

\* bound: largest RetryAfter (seconds) a TooManyRequestsError carries
MaxRetryAfter == 1

TooManyRequestsErrors == {[kind |-> "tooMany", retryAfter |-> s] : s \in 0..MaxRetryAfter}

ErrRetriesExceeded == [kind |-> "retriesExceeded"]
ErrCtx == [kind |-> "ctx"]
ErrLimiter == [kind |-> "limiter"]

Range(s) == {s[i] : i \in 1..Len(s)}

(***************************************************************************)
(* RetryOnTooManyRequestsError                                             *)
(***************************************************************************)
\* bound: largest maxRetries tried
MaxRetries == 3
\* bound: maxRetries is drawn from -NegRetries .. MaxRetries
NegRetries == 2

SendOutcomes == {Nil} \cup TooManyRequestsErrors \cup OtherErrors

\* errors.As(err, &tooManyRequestsError)
IsTooManyRequests(err) == err.kind = "tooMany"

\* if maxRetries < 0 { return errors.New("max retries exceeded") }
RetriesExhaustedOffByOne(maxRetries) == maxRetries <= 0
RetriesExhausted(maxRetries) == maxRetries < 0

RetryInit ==
    /\ rMax \in (0 - NegRetries)..MaxRetries
    /\ rLeft = rMax
    /\ rOut = <<>>
    /\ rSlept = 0
    /\ rRes = NoResult
    /\ rPc = "call"

RetryIdle ==
    /\ rMax = 0
    /\ rLeft = 0
    /\ rOut = <<>>
    /\ rSlept = 0
    /\ rRes = NoResult
    /\ rPc = "done"

\* One activation of RetryOnTooManyRequestsError(rLeft, send): the budget
\* check, one invocation of send, and either a return or the sleep followed
\* by the recursive call with maxRetries-1.
RetryOnTooManyRequestsError ==
    /\ rPc = "call"
    /\ IF RetriesExhausted(rLeft)
       THEN /\ rRes' = ErrRetriesExceeded
            /\ rPc' = "done"
            /\ UNCHANGED <<rLeft, rOut, rSlept>>
       ELSE \E err \in SendOutcomes :
            /\ rOut' = Append(rOut, err)
            /\ IF err = Nil
               THEN /\ rRes' = Nil
                    /\ rPc' = "done"
                    /\ UNCHANGED <<rLeft, rSlept>>
               ELSE IF IsTooManyRequests(err)
               THEN /\ rSlept' = rSlept + err.retryAfter
                    /\ rLeft' = rLeft - 1
                    /\ UNCHANGED <<rRes, rPc>>
               ELSE /\ rRes' = err
                    /\ rPc' = "done"
                    /\ UNCHANGED <<rLeft, rSlept>>
    /\ UNCHANGED <<rMax, notRetryVars>>

RetryNext == RetryOnTooManyRequestsError

(***************************************************************************)
(* BroadcastMessage                                                        *)
(***************************************************************************)
\* bound: largest number of broadcast targets
MaxTargets == 3
\* bound: largest limiter burst
MaxBurst == 2

\* The limiter is golang.org/x/time/rate.Limiter.  Wait(ctx) returns an
\* error when the burst is smaller than one event, when ctx is already
\* cancelled, or when the wait would exceed ctx's deadline; otherwise it
\* returns nil at once when a token is there, or blocks until its timer
\* fires (nil) or ctx is cancelled (ctx.Err()), whichever happens first.

BroadcastInit ==
    /\ bTotal \in 0..MaxTargets
    /\ bStop \in BOOLEAN
    /\ bProgress \in BOOLEAN
    /\ bBurst \in 0..MaxBurst
    /\ bTokens \in 0..bBurst
    /\ bDeadline \in BOOLEAN
    /\ bCtxDone = FALSE
    /\ bI = 0
    /\ bErrCount = 0
    /\ bReports = <<>>
    /\ bSends = <<>>
    /\ bSendOut = <<>>
    /\ bCancelAt = -1
    /\ bRes = NoResult
    /\ bPc = "loop"

BroadcastIdle ==
    /\ bTotal = 0
    /\ bStop = FALSE
    /\ bProgress = FALSE
    /\ bBurst = 0
    /\ bTokens = 0
    /\ bDeadline = FALSE
    /\ bCtxDone = FALSE
    /\ bI = 0
    /\ bErrCount = 0
    /\ bReports = <<>>
    /\ bSends = <<>>
    /\ bSendOut = <<>>
    /\ bCancelAt = -1
    /\ bRes = NoResult
    /\ bPc = "done"

\* opts.progress(i, errCount, total), when a sink is configured
ProgressOneBased(reports, i, errCount, total) ==
    IF bProgress THEN Append(reports, <<i + 1, errCount, total>>) ELSE reports
Progress(reports, i, errCount, total) ==
    IF bProgress THEN Append(reports, <<i, errCount, total>>) ELSE reports

\* if ctx.Err() != nil { return ctx.Err() }
CtxErr(done) == IF done THEN ErrCtx ELSE Nil

\* errCount++ ; if opts.terminalOnSendError { return err }
AbortOnSendErrorAlways(err) == err # Nil
AbortOnSendErrorNever(err) == FALSE
AbortOnSendError(err) == err # Nil /\ bStop

\* The head of one loop iteration (or the code after the loop when the range
\* is exhausted): the cancellation check and the progress report.
BroadcastLoop ==
    /\ bPc = "loop"
    /\ IF bI < bTotal
       THEN IF CtxErr(bCtxDone) # Nil
            THEN /\ bRes' = CtxErr(bCtxDone)
                 /\ bPc' = "done"
                 /\ UNCHANGED bReports
            ELSE /\ bReports' = Progress(bReports, bI, bErrCount, bTotal)
                 /\ bPc' = "wait"
                 /\ UNCHANGED bRes
       ELSE /\ bReports' = Progress(bReports, bTotal, bErrCount, bTotal)
            /\ bRes' = Nil
            /\ bPc' = "done"
    /\ UNCHANGED <<notBroadcastVars, bTotal, bStop, bProgress, bBurst, bTokens, bDeadline, bCtxDone,
                   bI, bErrCount, bSends, bSendOut, bCancelAt>>

\* err := rateLimiter.Wait(ctx); if err != nil { return err }; send(ctx, b, d)
\* Entry of Wait.  An admitted target is sent at once: nothing can suspend
\* the loop between Wait returning nil and the invocation of send.
\* (LimiterWaitBackground: the wait called with a context that is never
\* cancelled.)
LimiterWaitBackground ==
    /\ bPc = "wait"
    /\ IF bTokens >= 1
       THEN /\ bTokens' = bTokens - 1
            /\ bSends' = Append(bSends, bI)
            /\ bPc' = "send"
       ELSE /\ bPc' = "blocked"
            /\ UNCHANGED <<bTokens, bSends>>
    /\ UNCHANGED <<notBroadcastVars, bTotal, bStop, bProgress, bBurst, bDeadline, bCtxDone, bI,
                   bErrCount, bReports, bSendOut, bCancelAt, bRes>>
LimiterWait ==
    /\ bPc = "wait"
    /\ IF bBurst < 1
       THEN /\ bRes' = ErrLimiter
            /\ bPc' = "done"
            /\ UNCHANGED <<bTokens, bSends>>
       ELSE IF bCtxDone
       THEN /\ bRes' = ErrCtx
            /\ bPc' = "done"
            /\ UNCHANGED <<bTokens, bSends>>
       ELSE IF bTokens >= 1
       THEN /\ bTokens' = bTokens - 1
            /\ bSends' = Append(bSends, bI)
            /\ bPc' = "send"
            /\ UNCHANGED bRes
       ELSE IF bDeadline
       THEN /\ bRes' = ErrLimiter
            /\ bPc' = "done"
            /\ UNCHANGED <<bTokens, bSends>>
       ELSE /\ bPc' = "blocked"
            /\ UNCHANGED <<bTokens, bSends, bRes>>
    /\ UNCHANGED <<notBroadcastVars, bTotal, bStop, bProgress, bBurst, bDeadline, bCtxDone, bI,
                   bErrCount, bReports, bSendOut, bCancelAt>>

\* The limiter's timer fires while Wait is blocked: Wait returns nil and the
\* target is sent.
LimiterAdmit ==
    /\ bPc = "blocked"
    /\ bSends' = Append(bSends, bI)
    /\ bPc' = "send"
    /\ UNCHANGED <<notBroadcastVars, bTotal, bStop, bProgress, bBurst, bTokens, bDeadline, bCtxDone,
                   bI, bErrCount, bReports, bSendOut, bCancelAt, bRes>>

\* ctx is cancelled.  A blocked Wait is woken by the cancellation.
ContextCancel ==
    /\ bPc # "done"
    /\ ~bCtxDone
    /\ bCtxDone' = TRUE
    /\ bCancelAt' = Len(bSends)
    /\ bPc' = IF bPc = "blocked" THEN "woken" ELSE bPc
    /\ UNCHANGED <<notBroadcastVars, bTotal, bStop, bProgress, bBurst, bTokens, bDeadline,
                   bI, bErrCount, bReports, bSends, bSendOut, bRes>>

\* Wait, woken by the cancellation, returns ctx.Err(); BroadcastMessage
\* returns it.
LimiterAbort ==
    /\ bPc = "woken"
    /\ bRes' = ErrCtx
    /\ bPc' = "done"
    /\ UNCHANGED <<notBroadcastVars, bTotal, bStop, bProgress, bBurst, bTokens, bDeadline, bCtxDone,
                   bI, bErrCount, bReports, bSends, bSendOut, bCancelAt>>

\* send(ctx, b, d) returns err; the error accounting and the loop increment.
BroadcastSendReturn ==
    /\ bPc = "send"
    /\ \E err \in {Nil} \cup OtherErrors :
        /\ bSendOut' = Append(bSendOut, err)
        /\ bErrCount' = IF err # Nil THEN bErrCount + 1 ELSE bErrCount
        /\ IF AbortOnSendError(err)
           THEN /\ bRes' = err
                /\ bPc' = "done"
                /\ UNCHANGED bI
           ELSE /\ bI' = bI + 1
                /\ bPc' = "loop"
                /\ UNCHANGED bRes
    /\ UNCHANGED <<notBroadcastVars, bTotal, bStop, bProgress, bBurst, bTokens, bDeadline, bCtxDone,
                   bReports, bSends, bCancelAt>>

BroadcastNext ==
    \/ BroadcastLoop
    \/ LimiterWait
    \/ LimiterAdmit
    \/ ContextCancel
    \/ LimiterAbort
    \/ BroadcastSendReturn

(***************************************************************************)
(* WithMiddleware                                                          *)
(***************************************************************************)
\* bound: longest middleware list
MaxChain == 3

\* "A", "B": middlewares that call next and return what it returned.
\* "X": a middleware that returns an error without calling next.
\* "T": the terminal handler h.
PassMiddlewares == {"A", "B"}
AbortMiddlewares == {"X"}
MwIds == PassMiddlewares \cup AbortMiddlewares
Terminal == "T"

SeqsUpTo(S, n) == UNION {[1..k -> S] : k \in 0..n}

\* middleware[i](handler): the handler whose outermost frame is m
Wrap(m, handler) == <<m>> \o handler

\* handler := h; for i := len(middleware)-1; i >= 0; i-- { handler = middleware[i](handler) }
\* (indices are 1-based here)
RECURSIVE WrapFrom(_, _, _)
WrapFrom(middleware, i, handler) ==
    IF i < 1 THEN handler
    ELSE WrapFrom(middleware, i - 1, Wrap(middleware[i], handler))

\* the same loop running forward: for i := 0; i < len(middleware); i++
RECURSIVE WrapUpFrom(_, _, _)
WrapUpFrom(middleware, i, handler) ==
    IF i > Len(middleware) THEN handler
    ELSE WrapUpFrom(middleware, i + 1, Wrap(middleware[i], handler))

ComposeForward(h, middleware) == WrapUpFrom(middleware, 1, h)
Compose(h, middleware) == WrapFrom(middleware, Len(middleware), h)

ChainInit ==
    /\ cMws \in SeqsUpTo(MwIds, MaxChain)
    /\ cErrHandler \in BOOLEAN
    /\ cHandler = <<>>
    /\ cDepth = 0
    /\ cRet = NoResult
    /\ cLog = <<>>
    /\ cHandled = <<>>
    /\ cPc = "bind"

ChainIdle ==
    /\ cMws = <<>>
    /\ cErrHandler = FALSE
    /\ cHandler = <<>>
    /\ cDepth = 0
    /\ cRet = NoResult
    /\ cLog = <<>>
    /\ cHandled = <<>>
    /\ cPc = "done"

\* WithMiddleware(h, e, middleware...) builds the composed handler.
WithMiddleware ==
    /\ cPc = "bind"
    /\ cHandler' = Compose(<<Terminal>>, cMws)
    /\ cPc' = "ready"
    /\ UNCHANGED <<notChainVars, cMws, cErrHandler, cDepth, cRet, cLog, cHandled>>

\* The returned bot.HandlerFunc is invoked with an update: handler(ctx, update).
Dispatch ==
    /\ cPc = "ready"
    /\ cDepth' = 1
    /\ cPc' = "down"
    /\ UNCHANGED <<notChainVars, cMws, cErrHandler, cHandler, cRet, cLog, cHandled>>

\* The frame at cDepth is entered.  A pass-through middleware calls next;
\* an aborting one and the terminal handler produce the value they return.
HandlerCall ==
    /\ cPc = "down"
    /\ cLog' = Append(cLog, <<"call", cHandler[cDepth]>>)
    /\ IF cHandler[cDepth] \in PassMiddlewares
       THEN /\ cDepth' = cDepth + 1
            /\ UNCHANGED <<cRet, cPc>>
       ELSE /\ \E r \in (IF cHandler[cDepth] = Terminal THEN {Nil} ELSE {}) \cup OtherErrors :
                cRet' = r
            /\ cPc' = "up"
            /\ UNCHANGED cDepth
    /\ UNCHANGED <<notChainVars, cMws, cErrHandler, cHandler, cHandled>>

\* The frame at cDepth returns cRet to its caller.
HandlerReturn ==
    /\ cPc = "up"
    /\ cLog' = Append(cLog, <<"ret", cHandler[cDepth]>>)
    /\ IF cDepth = 1
       THEN /\ cPc' = "boundary"
            /\ cDepth' = 0
       ELSE /\ cDepth' = cDepth - 1
            /\ UNCHANGED cPc
    /\ UNCHANGED <<notChainVars, cMws, cErrHandler, cHandler, cRet, cHandled>>

ErrorBoundaryUnconditional ==
    /\ cPc = "boundary"
    /\ cHandled' = IF cErrHandler THEN Append(cHandled, cRet) ELSE cHandled
    /\ cPc' = "done"
    /\ UNCHANGED <<notChainVars, cMws, cErrHandler, cHandler, cDepth, cRet, cLog>>
\* if err := handler(ctx, update); err != nil { if e != nil { e(ctx, bot, update, err) } }
ErrorBoundary ==
    /\ cPc = "boundary"
    /\ cHandled' = IF cRet # Nil /\ cErrHandler THEN Append(cHandled, cRet) ELSE cHandled
    /\ cPc' = "done"
    /\ UNCHANGED <<notChainVars, cMws, cErrHandler, cHandler, cDepth, cRet, cLog>>

ChainNext ==
    \/ WithMiddleware
    \/ Dispatch
    \/ HandlerCall
    \/ HandlerReturn
    \/ ErrorBoundary

(***************************************************************************)
(* NewSingleFlightMiddleware                                               *)
(***************************************************************************)
\* bound: number of dispatching goroutines (each dispatches one update)
NumCallers == 3
\* bound: largest message id
MaxMsgId == 2

Callers == 1..NumCallers
MsgIds == 1..MaxMsgId

\* strconv.Itoa for n >= 0
Digits == <<"0", "1", "2", "3", "4", "5", "6", "7", "8", "9">>
RECURSIVE Itoa(_)
Itoa(n) == IF n < 10 THEN Digits[n + 1] ELSE Itoa(n \div 10) \o Digits[(n % 10) + 1]

NoUpdate == [kind |-> "none"]
\* A callback query (its own id, the id of its origin message) or an update
\* without CallbackQuery.
CallbackUpdates == [kind : {"callback"}, id : Callers, msg : MsgIds]
MessageUpdates == {[kind |-> "message"]}

\* key := strconv.Itoa(update.CallbackQuery.Message.Message.ID)
DedupKeyOfQuery(update) == Itoa(update.id)
DedupKey(update) == Itoa(update.msg)

BypassKey == "-"
SFKeys == {Itoa(i) : i \in 1..(IF NumCallers > MaxMsgId THEN NumCallers ELSE MaxMsgId)}

\* update.CallbackQuery == nil
SFBypass(update) == update.kind # "callback"

\* The execution of next in flight for key k (0: none).
InFlight(k) ==
    LET S == {e \in 1..Len(sfExec) : sfExec[e].key = k /\ sfExec[e].res = NoResult}
    IN IF S = {} THEN 0 ELSE CHOOSE e \in S : TRUE

SFInit ==
    /\ sfUpd = [p \in Callers |-> NoUpdate]
    /\ sfPc = [p \in Callers |-> "idle"]
    /\ sfMap = [k \in SFKeys |-> 0]
    /\ sfCalls = <<>>
    /\ sfJoin = [p \in Callers |-> 0]
    /\ sfRet = [p \in Callers |-> NoResult]
    /\ sfExec = <<>>
    /\ sfMine = [p \in Callers |-> 0]
    /\ sfSaw = [p \in Callers |-> 0]

SFIdle ==
    /\ sfUpd = <<>>
    /\ sfPc = <<>>
    /\ sfMap = <<>>
    /\ sfCalls = <<>>
    /\ sfJoin = <<>>
    /\ sfRet = <<>>
    /\ sfExec = <<>>
    /\ sfMine = <<>>
    /\ sfSaw = <<>>

\* The middleware is entered with an update by goroutine p.  An update
\* without CallbackQuery goes straight to next.  For a callback query,
\* sf.Do(key, ...) under the group's mutex either attaches p to the call
\* registered for the key (and then blocks in c.wg.Wait()) or registers a new
\* call and starts next in p.
SFDispatch(p) ==
    /\ sfPc[p] = "idle"
    /\ \E u \in {v \in CallbackUpdates : v.id = p} \cup MessageUpdates :
        /\ sfUpd' = [sfUpd EXCEPT ![p] = u]
        /\ UNCHANGED sfRet
        /\ IF SFBypass(u)
           THEN /\ sfExec' = Append(sfExec, [key |-> BypassKey, res |-> NoResult])
                /\ sfMine' = [sfMine EXCEPT ![p] = Len(sfExec) + 1]
                /\ sfSaw' = [sfSaw EXCEPT ![p] = 0]
                /\ sfJoin' = [sfJoin EXCEPT ![p] = 0]
                /\ sfPc' = [sfPc EXCEPT ![p] = "running"]
                /\ UNCHANGED <<sfMap, sfCalls>>
           ELSE /\ sfSaw' = [sfSaw EXCEPT ![p] = InFlight(Itoa(u.msg))]
                /\ IF sfMap[DedupKey(u)] # 0
                   THEN /\ sfJoin' = [sfJoin EXCEPT ![p] = sfMap[DedupKey(u)]]
                        /\ sfMine' = [sfMine EXCEPT ![p] = 0]
                        /\ sfPc' = [sfPc EXCEPT ![p] = "waiting"]
                        /\ UNCHANGED <<sfMap, sfCalls, sfExec>>
                   ELSE /\ sfCalls' = Append(sfCalls, [key |-> DedupKey(u), err |-> NoResult,
                                                       done |-> FALSE])
                        /\ sfMap' = [sfMap EXCEPT ![DedupKey(u)] = Len(sfCalls) + 1]
                        /\ sfJoin' = [sfJoin EXCEPT ![p] = Len(sfCalls) + 1]
                        /\ sfExec' = Append(sfExec, [key |-> Itoa(u.msg), res |-> NoResult])
                        /\ sfMine' = [sfMine EXCEPT ![p] = Len(sfExec) + 1]
                        /\ sfPc' = [sfPc EXCEPT ![p] = "running"]
    /\ UNCHANGED notSFVars

\* next(ctx, update) returns in p, with a group that keeps the key of a
\* completed call.
SFNextReturnKeepsKey(p) ==
    /\ sfPc[p] = "running"
    /\ \E r \in {Nil} \cup OtherErrors :
        /\ sfExec' = [sfExec EXCEPT ![sfMine[p]].res = r]
        /\ sfRet' = [sfRet EXCEPT ![p] = r]
        /\ IF sfJoin[p] = 0
           THEN UNCHANGED sfCalls
           ELSE sfCalls' = [sfCalls EXCEPT ![sfJoin[p]].err = r, ![sfJoin[p]].done = TRUE]
    /\ sfPc' = [sfPc EXCEPT ![p] = "done"]
    /\ UNCHANGED <<notSFVars, sfUpd, sfJoin, sfMine, sfSaw, sfMap>>

\* next(ctx, update) returns in p.  For the leader of a call: doCall stores
\* the result, releases the waiters (c.wg.Done()) and deletes the key, and
\* Do returns c.err.
SFNextReturn(p) ==
    /\ sfPc[p] = "running"
    /\ \E r \in {Nil} \cup OtherErrors :
        /\ sfExec' = [sfExec EXCEPT ![sfMine[p]].res = r]
        /\ sfRet' = [sfRet EXCEPT ![p] = r]
        /\ IF sfJoin[p] = 0
           THEN UNCHANGED <<sfCalls, sfMap>>
           ELSE /\ sfCalls' = [sfCalls EXCEPT ![sfJoin[p]].err = r, ![sfJoin[p]].done = TRUE]
                /\ sfMap' = [sfMap EXCEPT ![sfCalls[sfJoin[p]].key] =
                                 IF @ = sfJoin[p] THEN 0 ELSE @]
    /\ sfPc' = [sfPc EXCEPT ![p] = "done"]
    /\ UNCHANGED <<notSFVars, sfUpd, sfJoin, sfMine, sfSaw>>

\* c.wg.Wait() returns in a waiter once the call is done: Do returns c.err.
SFWake(p) ==
    /\ sfPc[p] = "waiting"
    /\ sfCalls[sfJoin[p]].done
    /\ sfRet' = [sfRet EXCEPT ![p] = sfCalls[sfJoin[p]].err]
    /\ sfPc' = [sfPc EXCEPT ![p] = "done"]
    /\ UNCHANGED <<notSFVars, sfUpd, sfMap, sfCalls, sfJoin, sfExec, sfMine, sfSaw>>

SFNext ==
    \/ \E p \in Callers : SFDispatch(p)
    \/ \E p \in Callers : SFNextReturn(p)
    \/ \E p \in Callers : SFWake(p)

\* The callers' contexts.
SFCancelInit == sfCtxDone = [p \in Callers |-> FALSE]
SFCancelIdle == sfCtxDone = <<>>

\* The context of caller p is cancelled while p is inside the middleware.
\* sf.Do takes no context: nothing in the middleware observes the
\* cancellation (next may, in the goroutine that runs it).
SFContextCancel(p) ==
    /\ sfPc[p] \in {"running", "waiting"}
    /\ ~sfCtxDone[p]
    /\ sfCtxDone' = [sfCtxDone EXCEPT ![p] = TRUE]
    /\ UNCHANGED notSfcVars

SFCancelNext ==
    \/ \E p \in Callers : SFDispatch(p)
    \/ \E p \in Callers : SFNextReturn(p)
    \/ \E p \in Callers : SFWake(p)
    \/ \E p \in Callers : SFContextCancel(p)

(***************************************************************************)
(* NewGroupMessageFilterMiddleware                                         *)
(***************************************************************************)
\* bound: number of goroutines dispatching concurrently through the filter
NumDispatchers == 2
\* bound: longest text or caption of an update
MaxTextLen == 2
\* bound: most entities of a text or caption
MaxEntities == 1
\* bound: last instant of the clock
MaxNow == 2
\* bound: infoExpire, in clock ticks
InfoExpire == 2

Dispatchers == 1..NumDispatchers

\* Texts are sequences of characters; offsets and lengths count characters.
TextAlphabet == {"@", "b"}
Texts == SeqsUpTo(TextAlphabet, MaxTextLen)

\* The bot's identity as b.GetMe reports it, and another user.
BotId == 1
BotUsername == <<"b">>
OtherUserId == 2
NoUser == [id |-> 0]
\* The *models.User the gen-th invocation of GetMe returned (gen 0: one
\* fetched before the behaviour starts).
BotUser(gen) == [id |-> BotId, username |-> BotUsername, gen |-> gen]
ErrGetMe == [kind |-> "getMe"]

\* "@"+username
AtName(username) == <<"@">> \o username

\* models.MessageEntity: Type, Offset, Length, User.ID (0: no User)
EntityTypes == {"mention", "text_mention", "bot_command", "url"}
EntitiesOf(text) ==
    {e \in [type : EntityTypes, offset : 0..Len(text), length : 1..Len(text),
            user : {0, BotId, OtherUserId}] :
        /\ e.offset + e.length <= Len(text)
        /\ (e.type = "text_mention") <=> (e.user # 0)}
EntityListsOf(text) == SeqsUpTo(EntitiesOf(text), MaxEntities)
\* models.ChatType
GroupChatTypes == {"group", "supergroup", "channel"}
ChatTypes == {"private"} \cup GroupChatTypes

\* Updates: a callback query (Message == nil), or a message carrying a text
\* or a caption (never both).  replyFrom is ReplyToMessage.From.ID
\* (0: ReplyToMessage == nil).
ReplyFroms == {0, BotId, OtherUserId}
CallbackUpdate == [kind |-> "callback"]
TextMessage(c, r, t, es) ==
    [kind |-> "message", chat |-> c, replyFrom |-> r, text |-> t, entities |-> es,
     caption |-> <<>>, capEntities |-> <<>>]
CaptionMessage(c, r, t, es) ==
    [kind |-> "message", chat |-> c, replyFrom |-> r, text |-> <<>>, entities |-> <<>>,
     caption |-> t, capEntities |-> es]

\* The few updates used when several goroutines dispatch concurrently.
BotMention == [type |-> "mention", offset |-> 0, length |-> 2, user |-> 0]
FewUpdates ==
    {CallbackUpdate} \cup
    {TextMessage("supergroup", 0, AtName(BotUsername), es) : es \in {<<>>, <<BotMention>>}}

\* ---- strings
\* text[a:b] is defined (does not panic) iff 0 <= a <= b <= len(text)
SliceOK(text, a, b) == 0 <= a /\ a <= b /\ b <= Len(text)
Slice(text, a, b) == SubSeq(text, a + 1, b)
\* strings.HasSuffix
HasSuffix(str, suffix) ==
    /\ Len(str) >= Len(suffix)
    /\ SubSeq(str, Len(str) - Len(suffix) + 1, Len(str)) = suffix
\* strings.ReplaceAll(str, old, "") for a non-empty old
RECURSIVE RemoveAll(_, _)
RemoveAll(str, old) ==
    IF Len(str) < Len(old) THEN str
    ELSE IF SubSeq(str, 1, Len(old)) = old
         THEN RemoveAll(SubSeq(str, Len(old) + 1, Len(str)), old)
         ELSE <<str[1]>> \o RemoveAll(Tail(str), old)

\* isGroupChatType
IsGroupChatType(t) == t = "group" \/ t = "supergroup" \/ t = "channel"

\* if user != nil && time.Since(ts) < infoExpire
CacheFreshNever(user, ts, now) == FALSE
CacheFreshAlways(user, ts, now) == user # NoUser
CacheFresh(user, ts, now) == user # NoUser /\ now - ts < InfoExpire

\* checkMention from entity i on: [text, mention, panic].  entityStr is
\* sliced from the text as rewritten so far, at the entity's own offset.
RECURSIVE CheckMentionFrom(_, _, _, _, _, _, _)
CheckMentionFrom(text, entities, i, id, username, trimMention, isMention) ==
    IF i > Len(entities)
    THEN [text |-> text, mention |-> isMention, panic |-> FALSE]
    ELSE LET entity == entities[i]
             lo == entity.offset
             hi == entity.offset + entity.length
         IN  IF ~SliceOK(text, lo, hi)
             THEN [text |-> text, mention |-> isMention, panic |-> TRUE]
             ELSE LET entityStr == Slice(text, lo, hi)
                      cut == Slice(text, 0, lo) \o Slice(text, hi, Len(text))
                      uncommand == Slice(text, 0, lo) \o RemoveAll(entityStr, AtName(username))
                                       \o Slice(text, hi, Len(text))
                  IN  CASE entity.type = "mention" /\ entityStr = AtName(username) ->
                               CheckMentionFrom(IF trimMention THEN cut ELSE text,
                                                entities, i + 1, id, username, trimMention, TRUE)
                        [] entity.type = "text_mention" /\ entity.user = id ->
                               CheckMentionFrom(IF trimMention THEN cut ELSE text,
                                                entities, i + 1, id, username, trimMention, TRUE)
                        [] entity.type = "bot_command" /\ HasSuffix(entityStr, AtName(username)) ->
                               CheckMentionFrom(IF trimMention THEN uncommand ELSE text,
                                                entities, i + 1, id, username, trimMention, TRUE)
                        [] OTHER ->
                               CheckMentionFrom(text, entities, i + 1, id, username,
                                                trimMention, isMention)

CheckMentionAlways(text, entities, id, username, trimMention) ==
    CheckMentionFrom(text, entities, 1, id, username, trimMention, TRUE)
CheckMention(text, entities, id, username, trimMention) ==
    CheckMentionFrom(text, entities, 1, id, username, trimMention, FALSE)

\* update.Message == nil || !isGroupChatType(update.Message.Chat.Type)
PassThroughNoMessage(update) == update.kind # "message"
PassThrough(update) == update.kind # "message" \/ ~IsGroupChatType(update.chat)

\* The filter after the identity is known (lines 170-196):
\* [update, pass, panic]: the update as rewritten, whether next is invoked
\* with it, whether a slice expression faulted.
ScanUpdate(update, ident, trimMention) ==
    IF update.replyFrom # 0 /\ update.replyFrom = ident.id
    THEN [update |-> update, pass |-> TRUE, panic |-> FALSE]
    ELSE LET scanText == update.entities # <<>> /\ update.text # <<>>
             r1 == IF scanText
                   THEN CheckMention(update.text, update.entities, ident.id,
                                     ident.username, trimMention)
                   ELSE [text |-> update.text, mention |-> FALSE, panic |-> FALSE]
             u1 == [update EXCEPT !.text = r1.text]
             scanCaption == ~r1.mention /\ update.capEntities # <<>> /\ update.caption # <<>>
             r2 == IF scanCaption
                   THEN CheckMention(update.caption, update.capEntities, ident.id,
                                     ident.username, trimMention)
                   ELSE [text |-> u1.text, mention |-> r1.mention, panic |-> FALSE]
             u2 == [u1 EXCEPT !.text = r2.text]
         IN  IF r1.panic THEN [update |-> update, pass |-> FALSE, panic |-> TRUE]
             ELSE IF r2.panic THEN [update |-> u1, pass |-> FALSE, panic |-> TRUE]
             ELSE [update |-> u2, pass |-> r2.mention, panic |-> FALSE]

\* WithMiddleware's boundary around the filter: e is invoked with a non-nil error.
ErrorHandlerCalls(err) == IF err # Nil THEN <<err>> ELSE <<>>

NextResults == {Nil} \cup OtherErrors

\* The GetMe invocation in flight (0: none).
GetMeInFlight ==
    LET S == {g \in 1..Len(fGetMe) : fGetMe[g].res = NoResult}
    IN IF S = {} THEN 0 ELSE CHOOSE g \in S : TRUE

FilterInit ==
    /\ fTrim \in BOOLEAN
    /\ fUser \in {NoUser, BotUser(0)}
    /\ fTs = 0
    /\ fNow = 0
    /\ fCalls = <<>>
    /\ fCur = 0
    /\ fGetMe = <<>>
    /\ fPc = [p \in Dispatchers |-> "idle"]
    /\ fOrig = [p \in Dispatchers |-> NoUpdate]
    /\ fUpd = [p \in Dispatchers |-> NoUpdate]
    /\ fJoin = [p \in Dispatchers |-> 0]
    /\ fMine = [p \in Dispatchers |-> 0]
    /\ fSaw = [p \in Dispatchers |-> 0]
    /\ fLooked = [p \in Dispatchers |-> FALSE]
    /\ fIdent = [p \in Dispatchers |-> NoUser]
    /\ fDown = [p \in Dispatchers |-> NoUpdate]
    /\ fRet = [p \in Dispatchers |-> NoResult]
    /\ fHandled = [p \in Dispatchers |-> <<>>]

FilterIdle ==
    /\ fTrim = FALSE
    /\ fUser = NoUser
    /\ fTs = 0
    /\ fNow = 0
    /\ fCalls = <<>>
    /\ fCur = 0
    /\ fGetMe = <<>>
    /\ fPc = <<>>
    /\ fOrig = <<>>
    /\ fUpd = <<>>
    /\ fJoin = <<>>
    /\ fMine = <<>>
    /\ fSaw = <<>>
    /\ fLooked = <<>>
    /\ fIdent = <<>>
    /\ fDown = <<>>
    /\ fRet = <<>>
    /\ fHandled = <<>>

\* The filter is entered by goroutine p with update u (lines 157-163 and the
\* entry of sf.Do("getMe", ...) in getBotInfo).  A non-group update goes
\* straight to next.  Otherwise p attaches to the registered "getMe" call,
\* or registers one and runs the function: a fresh cache entry is returned
\* at once, else b.GetMe is invoked.
FilterDispatch(p, u) ==
    /\ fPc[p] = "idle"
    /\ fOrig' = [fOrig EXCEPT ![p] = u]
    /\ fUpd' = [fUpd EXCEPT ![p] = u]
    /\ IF PassThrough(u)
       THEN /\ fDown' = [fDown EXCEPT ![p] = u]
            /\ \E r \in NextResults :
                /\ fRet' = [fRet EXCEPT ![p] = r]
                /\ fHandled' = [fHandled EXCEPT ![p] = ErrorHandlerCalls(r)]
            /\ fPc' = [fPc EXCEPT ![p] = "done"]
            /\ UNCHANGED <<fCalls, fCur, fGetMe, fJoin, fMine, fSaw, fLooked, fIdent>>
       ELSE /\ fLooked' = [fLooked EXCEPT ![p] = TRUE]
            /\ fSaw' = [fSaw EXCEPT ![p] = GetMeInFlight]
            /\ UNCHANGED <<fDown, fRet, fHandled>>
            /\ IF fCur # 0
               THEN /\ fJoin' = [fJoin EXCEPT ![p] = fCur]
                    /\ fPc' = [fPc EXCEPT ![p] = "wait"]
                    /\ UNCHANGED <<fCalls, fCur, fGetMe, fMine, fIdent>>
               ELSE IF CacheFresh(fUser, fTs, fNow)
               THEN /\ fIdent' = [fIdent EXCEPT ![p] = fUser]
                    /\ fPc' = [fPc EXCEPT ![p] = "scan"]
                    /\ UNCHANGED <<fCalls, fCur, fGetMe, fJoin, fMine>>
               ELSE /\ fCalls' = Append(fCalls, [val |-> NoUser, err |-> NoResult, done |-> FALSE])
                    /\ fCur' = Len(fCalls) + 1
                    /\ fJoin' = [fJoin EXCEPT ![p] = Len(fCalls) + 1]
                    /\ fGetMe' = Append(fGetMe, [at |-> fNow, hadUser |-> fUser # NoUser,
                                                 ts |-> fTs, res |-> NoResult, doneAt |-> 0])
                    /\ fMine' = [fMine EXCEPT ![p] = Len(fGetMe) + 1]
                    /\ fPc' = [fPc EXCEPT ![p] = "getMe"]
                    /\ UNCHANGED fIdent
    /\ UNCHANGED <<notFilterVars, fTrim, fUser, fTs, fNow>>

\* Goroutine p receives any update and enters the filter.
DispatchUpdate(p) ==
    /\ fPc[p] = "idle"
    /\ \/ FilterDispatch(p, CallbackUpdate)
       \/ \E c \in ChatTypes, r \in ReplyFroms, t \in Texts :
              \E es \in EntityListsOf(t) : FilterDispatch(p, TextMessage(c, r, t, es))
       \/ \E c \in ChatTypes, r \in ReplyFroms, t \in Texts \ {<<>>} :
              \E es \in EntityListsOf(t) : FilterDispatch(p, CaptionMessage(c, r, t, es))

\* Goroutine p receives one of the few updates and enters the filter.
DispatchFewUpdate(p) ==
    /\ fPc[p] = "idle"
    /\ \E u \in FewUpdates : FilterDispatch(p, u)

\* bound: most entities of a text or caption when group messages alone are dispatched
MaxScanEntities == 2
\* Entity lists in the order of their offsets, as the platform delivers them.
SortedByOffset(es) == \A i \in 1..(Len(es) - 1) : es[i].offset <= es[i + 1].offset
ScanEntityListsOf(text) ==
    {es \in SeqsUpTo(EntitiesOf(text), MaxScanEntities) : SortedByOffset(es)}

\* Goroutine p receives a group message with several entities, no reply to
\* anybody, and enters the filter.
DispatchGroupMessage(p) ==
    /\ fPc[p] = "idle"
    /\ \E t \in Texts \ {<<>>} :
           \E es \in ScanEntityListsOf(t) :
               \/ FilterDispatch(p, TextMessage("supergroup", 0, t, es))
               \/ FilterDispatch(p, CaptionMessage("supergroup", 0, t, es))

\* b.GetMe returns in the leader p, with a filter that goes on to the
\* downstream handler when the lookup fails.
GetMeReturnFailOpen(p) ==
    /\ fPc[p] = "getMe"
    /\ \/ /\ fUser' = BotUser(fMine[p])
          /\ fTs' = fNow
          /\ fCalls' = [fCalls EXCEPT ![fJoin[p]] =
                            [val |-> BotUser(fMine[p]), err |-> Nil, done |-> TRUE]]
          /\ fGetMe' = [fGetMe EXCEPT ![fMine[p]].res = Nil, ![fMine[p]].doneAt = fNow]
          /\ fIdent' = [fIdent EXCEPT ![p] = BotUser(fMine[p])]
          /\ fPc' = [fPc EXCEPT ![p] = "scan"]
          /\ UNCHANGED <<fRet, fHandled, fDown>>
       \/ /\ fCalls' = [fCalls EXCEPT ![fJoin[p]] =
                            [val |-> NoUser, err |-> ErrGetMe, done |-> TRUE]]
          /\ fGetMe' = [fGetMe EXCEPT ![fMine[p]].res = ErrGetMe, ![fMine[p]].doneAt = fNow]
          /\ fDown' = [fDown EXCEPT ![p] = fUpd[p]]
          /\ \E r \in NextResults :
              /\ fRet' = [fRet EXCEPT ![p] = r]
              /\ fHandled' = [fHandled EXCEPT ![p] = ErrorHandlerCalls(r)]
          /\ fPc' = [fPc EXCEPT ![p] = "done"]
          /\ UNCHANGED <<fUser, fTs, fIdent>>
    /\ fCur' = 0
    /\ UNCHANGED <<notFilterVars, fTrim, fNow, fOrig, fUpd, fJoin, fMine, fSaw, fLooked>>

\* b.GetMe returns in the leader p, with a cache that records the time of
\* a failed refresh.
GetMeReturnCachesFailure(p) ==
    /\ fPc[p] = "getMe"
    /\ \/ /\ fUser' = BotUser(fMine[p])
          /\ fTs' = fNow
          /\ fCalls' = [fCalls EXCEPT ![fJoin[p]] =
                            [val |-> BotUser(fMine[p]), err |-> Nil, done |-> TRUE]]
          /\ fGetMe' = [fGetMe EXCEPT ![fMine[p]].res = Nil, ![fMine[p]].doneAt = fNow]
          /\ fIdent' = [fIdent EXCEPT ![p] = BotUser(fMine[p])]
          /\ fPc' = [fPc EXCEPT ![p] = "scan"]
          /\ UNCHANGED <<fRet, fHandled>>
       \/ /\ fTs' = fNow
          /\ fCalls' = [fCalls EXCEPT ![fJoin[p]] =
                            [val |-> NoUser, err |-> ErrGetMe, done |-> TRUE]]
          /\ fGetMe' = [fGetMe EXCEPT ![fMine[p]].res = ErrGetMe, ![fMine[p]].doneAt = fNow]
          /\ fRet' = [fRet EXCEPT ![p] = ErrGetMe]
          /\ fHandled' = [fHandled EXCEPT ![p] = ErrorHandlerCalls(ErrGetMe)]
          /\ fPc' = [fPc EXCEPT ![p] = "done"]
          /\ UNCHANGED <<fUser, fIdent>>
    /\ fCur' = 0
    /\ UNCHANGED <<notFilterVars, fTrim, fNow, fOrig, fUpd, fJoin, fMine, fSaw, fLooked, fDown>>

\* b.GetMe returns in the leader p (lines 108-119, 163-168): on success the
\* cache is written and the call completes with the user; on failure the
\* call completes with the error, which the filter returns.
GetMeReturn(p) ==
    /\ fPc[p] = "getMe"
    /\ \/ /\ fUser' = BotUser(fMine[p])
          /\ fTs' = fNow
          /\ fCalls' = [fCalls EXCEPT ![fJoin[p]] =
                            [val |-> BotUser(fMine[p]), err |-> Nil, done |-> TRUE]]
          /\ fGetMe' = [fGetMe EXCEPT ![fMine[p]].res = Nil, ![fMine[p]].doneAt = fNow]
          /\ fIdent' = [fIdent EXCEPT ![p] = BotUser(fMine[p])]
          /\ fPc' = [fPc EXCEPT ![p] = "scan"]
          /\ UNCHANGED <<fRet, fHandled>>
       \/ /\ fCalls' = [fCalls EXCEPT ![fJoin[p]] =
                            [val |-> NoUser, err |-> ErrGetMe, done |-> TRUE]]
          /\ fGetMe' = [fGetMe EXCEPT ![fMine[p]].res = ErrGetMe, ![fMine[p]].doneAt = fNow]
          /\ fRet' = [fRet EXCEPT ![p] = ErrGetMe]
          /\ fHandled' = [fHandled EXCEPT ![p] = ErrorHandlerCalls(ErrGetMe)]
          /\ fPc' = [fPc EXCEPT ![p] = "done"]
          /\ UNCHANGED <<fUser, fTs, fIdent>>
    /\ fCur' = 0
    /\ UNCHANGED <<notFilterVars, fTrim, fNow, fOrig, fUpd, fJoin, fMine, fSaw, fLooked, fDown>>

\* sf.Do returns in a goroutine that waited for the leader's call.
GetBotInfoWake(p) ==
    /\ fPc[p] = "wait"
    /\ fCalls[fJoin[p]].done
    /\ IF fCalls[fJoin[p]].err # Nil
       THEN /\ fRet' = [fRet EXCEPT ![p] = fCalls[fJoin[p]].err]
            /\ fHandled' = [fHandled EXCEPT ![p] = ErrorHandlerCalls(fCalls[fJoin[p]].err)]
            /\ fPc' = [fPc EXCEPT ![p] = "done"]
            /\ UNCHANGED fIdent
       ELSE /\ fIdent' = [fIdent EXCEPT ![p] = fCalls[fJoin[p]].val]
            /\ fPc' = [fPc EXCEPT ![p] = "scan"]
            /\ UNCHANGED <<fRet, fHandled>>
    /\ UNCHANGED <<notFilterVars, fTrim, fUser, fTs, fNow, fCalls, fCur, fGetMe, fOrig, fUpd,
                   fJoin, fMine, fSaw, fLooked, fDown>>

\* The rest of the filter in p (lines 170-196): the reply check, the scans
\* of text and caption, and the call of next or the silent return.  A slice
\* out of range panics; the panic leaves the filter.
FilterScan(p) ==
    /\ fPc[p] = "scan"
    /\ LET res == ScanUpdate(fUpd[p], fIdent[p], fTrim)
       IN  /\ fUpd' = [fUpd EXCEPT ![p] = res.update]
           /\ IF res.panic
              THEN /\ fPc' = [fPc EXCEPT ![p] = "panic"]
                   /\ UNCHANGED <<fDown, fRet, fHandled>>
              ELSE /\ fPc' = [fPc EXCEPT ![p] = "done"]
                   /\ IF res.pass
                      THEN /\ fDown' = [fDown EXCEPT ![p] = res.update]
                           /\ \E r \in NextResults :
                               /\ fRet' = [fRet EXCEPT ![p] = r]
                               /\ fHandled' = [fHandled EXCEPT ![p] = ErrorHandlerCalls(r)]
                      ELSE /\ fRet' = [fRet EXCEPT ![p] = Nil]
                           /\ UNCHANGED <<fDown, fHandled>>
    /\ UNCHANGED <<notFilterVars, fTrim, fUser, fTs, fNow, fCalls, fCur, fGetMe, fOrig,
                   fJoin, fMine, fSaw, fLooked, fIdent>>

\* Time passes.
Tick ==
    /\ fNow < MaxNow
    /\ fNow' = fNow + 1
    /\ UNCHANGED <<notFilterVars, fTrim, fUser, fTs, fCalls, fCur, fGetMe, fPc, fOrig, fUpd,
                   fJoin, fMine, fSaw, fLooked, fIdent, fDown, fRet, fHandled>>

\* One goroutine dispatching any update.
FilterNext ==
    \/ DispatchUpdate(1)
    \/ GetMeReturn(1)
    \/ FilterScan(1)

\* One goroutine dispatching a group message with several entities.
ScanNext ==
    \/ DispatchGroupMessage(1)
    \/ GetMeReturn(1)
    \/ FilterScan(1)

\* Several goroutines dispatching concurrently while time passes.
IdentityNext ==
    \/ \E p \in Dispatchers : DispatchFewUpdate(p)
    \/ \E p \in Dispatchers : GetMeReturn(p)
    \/ \E p \in Dispatchers : GetBotInfoWake(p)
    \/ \E p \in Dispatchers : FilterScan(p)
    \/ Tick

(***************************************************************************)
(* NewApp, Bind*, NewAuthMiddleware, NewRecoveryMiddleware                 *)
(***************************************************************************)
\* bound: most middlewares registered with AppendMiddlewares
MaxGlobalMws == 2
\* bound: most middlewares passed to one Bind* call
MaxRouteMws == 2
\* bound: dispatches through the bound route
MaxAppDispatches == 2

\* The middlewares a user registers globally and per route, and the one NewApp adds.
GlobalMws == {"g1", "g2"}
RouteMws == {"r1"}
UserMws == GlobalMws \cup RouteMws
Auth == "auth"

\* map[string]any: a function from some keys to values
ClaimKeys == {"uid", "subject"}
ClaimValues == {"u1", "u2"}
NoValue == "none"
EmptyMap == [k \in {} |-> NoValue]
ClaimMaps == UNION {[D -> ClaimValues] : D \in SUBSET ClaimKeys}
ErrAuth == [kind |-> "auth"]

\* A context is the list of its value layers: the incoming context's own
\* values first, then one layer per *values wrapper around it.
BaseContexts == {<<EmptyMap>>} \cup {<<m>> : m \in [{"uid"} -> ClaimValues]}
NoContext == <<>>

\* (c *values).Value(key) for a string key
ValueBaseFirst(ctx, key) ==
    LET S == {i \in 1..Len(ctx) : key \in DOMAIN ctx[i]}
    IN  IF S = {} THEN NoValue ELSE ctx[CHOOSE i \in S : \A j \in S : i <= j][key]
Value(ctx, key) ==
    LET S == {i \in 1..Len(ctx) : key \in DOMAIN ctx[i]}
    IN  IF S = {} THEN NoValue ELSE ctx[CHOOSE i \in S : \A j \in S : i >= j][key]

\* contextWithValues(ctx, data)
ContextWithValuesDropped(ctx, data) == ctx
ContextWithValues(ctx, data) == IF DOMAIN data = {} THEN ctx ELSE Append(ctx, data)

\* app.middlewares = append(opt.middlewares, NewAuthMiddleware(...))
AppMiddlewares(global) == Append(global, Auth)

\* (b *Bot).appendMiddlewares(middlewares...)
AppendMiddlewaresRouteFirst(own, middlewares) == middlewares \o own
AppendMiddlewares(own, middlewares) == own \o middlewares

\* The default error handler reads update.Message.Text: Message is nil in
\* an update that carries a callback query only.
ErrorHandlerFaults(errHandler, update) == errHandler = "default" /\ update = "callback"

AppInit ==
    /\ aGlobal \in SeqsUpTo(GlobalMws, MaxGlobalMws)
    /\ aErrHandler \in {"default", "custom", "nil"}
    /\ aMws = <<>>
    /\ aRoute = <<>>
    /\ aChain = <<>>
    /\ aPc = "new"
    /\ aUpdate = "none"
    /\ aDepth = 0
    /\ aCtx = NoContext
    /\ aClaims = NoResult
    /\ aLog = <<>>
    /\ aRet = NoResult
    /\ aHandled = <<>>
    /\ aFault = "none"
    /\ aDone = 0
    /\ aRecovered = 0

AppIdle ==
    /\ aGlobal = <<>>
    /\ aErrHandler = "nil"
    /\ aMws = <<>>
    /\ aRoute = <<>>
    /\ aChain = <<>>
    /\ aPc = "idle"
    /\ aUpdate = "none"
    /\ aDepth = 0
    /\ aCtx = NoContext
    /\ aClaims = NoResult
    /\ aLog = <<>>
    /\ aRet = NoResult
    /\ aHandled = <<>>
    /\ aFault = "none"
    /\ aDone = 0
    /\ aRecovered = 0

\* NewApp: the auth middleware is appended to the registered middlewares.
NewApp ==
    /\ aPc = "new"
    /\ aMws' = AppMiddlewares(aGlobal)
    /\ aPc' = "bind"
    /\ UNCHANGED <<notAppVars, aGlobal, aErrHandler, aRoute, aChain, aUpdate, aDepth, aCtx,
                   aClaims, aLog, aRet, aHandled, aFault, aDone, aRecovered>>

\* BindNoRoute, BindCommand, BindCallback:
\* WithMiddleware(handlerFunc, b.errorHandler, b.appendMiddlewares(middlewares...)...)
BindRoute ==
    /\ aPc = "bind"
    /\ \E middlewares \in SeqsUpTo(RouteMws, MaxRouteMws) :
        /\ aRoute' = middlewares
        /\ aChain' = Compose(<<Terminal>>, AppendMiddlewares(aMws, middlewares))
    /\ aPc' = "ready"
    /\ UNCHANGED <<notAppVars, aGlobal, aErrHandler, aMws, aUpdate, aDepth, aCtx,
                   aClaims, aLog, aRet, aHandled, aFault, aDone, aRecovered>>

\* The bot invokes the route's handler, inside the recovery middleware, with
\* an update and a context.
AppDispatch ==
    /\ aPc = "ready"
    /\ aDone < MaxAppDispatches
    /\ aUpdate' \in {"message", "callback"}
    /\ aCtx' \in BaseContexts
    /\ aDepth' = 1
    /\ aPc' = "down"
    /\ UNCHANGED <<notAppVars, aGlobal, aErrHandler, aMws, aRoute, aChain,
                   aClaims, aLog, aRet, aHandled, aFault, aDone, aRecovered>>

\* The frame at aDepth runs.  The auth middleware calls the extractor and
\* returns its error or calls next with the overlaid context; a user
\* middleware calls next with the context it got, or returns an error; the
\* terminal handler returns.  An error travels up through the frames unchanged.
AppCall ==
    /\ aPc = "down"
    /\ aLog' = Append(aLog, [frame |-> aChain[aDepth], ctx |-> aCtx])
    /\ CASE aChain[aDepth] = Auth ->
              \E info \in ClaimMaps \cup {ErrAuth} :
                  /\ aClaims' = info
                  /\ IF info = ErrAuth
                     THEN /\ aRet' = ErrAuth
                          /\ aPc' = "boundary"
                          /\ UNCHANGED <<aCtx, aDepth>>
                     ELSE /\ aCtx' = ContextWithValues(aCtx, info)
                          /\ aDepth' = aDepth + 1
                          /\ UNCHANGED <<aRet, aPc>>
         [] aChain[aDepth] = Terminal ->
              /\ aRet' \in {Nil} \cup OtherErrors
              /\ aPc' = "boundary"
              /\ UNCHANGED <<aCtx, aDepth, aClaims>>
         [] OTHER ->
              \/ /\ aDepth' = aDepth + 1
                 /\ UNCHANGED <<aRet, aPc, aCtx, aClaims>>
              \/ /\ aRet' \in OtherErrors
                 /\ aPc' = "boundary"
                 /\ UNCHANGED <<aCtx, aDepth, aClaims>>
    /\ UNCHANGED <<notAppVars, aGlobal, aErrHandler, aMws, aRoute, aChain, aUpdate,
                   aHandled, aFault, aDone, aRecovered>>

\* A frame panics: when it is entered, or after the frame under it returned.
AppPanic ==
    /\ aPc \in {"down", "boundary"}
    /\ aFault' = "frame"
    /\ aPc' = "panic"
    /\ UNCHANGED <<notAppVars, aGlobal, aErrHandler, aMws, aRoute, aChain, aUpdate, aDepth,
                   aCtx, aClaims, aLog, aRet, aHandled, aDone, aRecovered>>

\* WithMiddleware's boundary: a non-nil error goes to the error handler, if
\* there is one; the error handler may fault.
AppBoundary ==
    /\ aPc = "boundary"
    /\ IF aRet # Nil /\ aErrHandler # "nil"
       THEN /\ aHandled' = Append(aHandled, aRet)
            /\ IF ErrorHandlerFaults(aErrHandler, aUpdate)
               THEN aPc' = "panic" /\ aFault' = "errorHandler"
               ELSE aPc' = "over" /\ UNCHANGED aFault
       ELSE /\ aPc' = "over"
            /\ UNCHANGED <<aHandled, aFault>>
    /\ UNCHANGED <<notAppVars, aGlobal, aErrHandler, aMws, aRoute, aChain, aUpdate, aDepth,
                   aCtx, aClaims, aLog, aRet, aDone, aRecovered>>

\* The panic reaches the bot without NewRecoveryMiddleware's deferred recover.
AppRecoverMissing ==
    /\ aPc = "panic"
    /\ aPc' = "crashed"
    /\ UNCHANGED <<notAppVars, aGlobal, aErrHandler, aMws, aRoute, aChain, aUpdate, aDepth,
                   aCtx, aClaims, aLog, aRet, aHandled, aFault, aDone, aRecovered>>
\* NewRecoveryMiddleware: the deferred function recovers the panic and logs
\* it; the bot's handler returns normally.
AppRecover ==
    /\ aPc = "panic"
    /\ aPc' = "over"
    /\ aRecovered' = aRecovered + 1
    /\ UNCHANGED <<notAppVars, aGlobal, aErrHandler, aMws, aRoute, aChain, aUpdate, aDepth,
                   aCtx, aClaims, aLog, aRet, aHandled, aFault, aDone>>

\* The dispatch is over; the bot is ready for the next update.
AppFinish ==
    /\ aPc = "over"
    /\ aPc' = "ready"
    /\ aDone' = aDone + 1
    /\ aUpdate' = "none"
    /\ aDepth' = 0
    /\ aCtx' = NoContext
    /\ aClaims' = NoResult
    /\ aLog' = <<>>
    /\ aRet' = NoResult
    /\ aHandled' = <<>>
    /\ aFault' = "none"
    /\ UNCHANGED <<notAppVars, aGlobal, aErrHandler, aMws, aRoute, aChain, aRecovered>>

AppNext ==
    \/ NewApp
    \/ BindRoute
    \/ AppDispatch
    \/ AppCall
    \/ AppPanic
    \/ AppBoundary
    \/ AppRecover
    \/ AppFinish

(***************************************************************************)
(* BindCommand and command routing                                         *)
(***************************************************************************)
\* bound: longest command name passed to BindCommand
MaxCommandLen == 2
\* bound: most command routes bound
MaxRoutes == 2
\* bound: longest message text routed
MaxMsgLen == 3

CommandAlphabet == {"/", "s"}
\* Command names end with a letter.
Commands == {c \in SeqsUpTo(CommandAlphabet, MaxCommandLen) : c # <<>> /\ c[Len(c)] = "s"}
MsgTexts == SeqsUpTo(CommandAlphabet \cup {" "}, MaxMsgLen)
NotRouted == [kind |-> "none"]
DefaultRoute == [kind |-> "default"]
RouteOf(i) == [kind |-> "route", index |-> i]

\* strings.HasPrefix
HasPrefix(str, prefix) == Len(str) >= Len(prefix) /\ SubSeq(str, 1, Len(prefix)) = prefix
\* strings.TrimPrefix
TrimPrefix(str, prefix) ==
    IF HasPrefix(str, prefix) THEN SubSeq(str, Len(prefix) + 1, Len(str)) ELSE str
\* command = "/" + strings.TrimPrefix(command, "/")
CommandPattern(command) == <<"/">> \o TrimPrefix(command, <<"/">>)

\* bot.MatchTypePrefix against update.Message.Text, as BindCommand registers it
Match(text, pattern) == HasPrefix(text, pattern)

CmdInit ==
    /\ cmdHandlers = <<>>
    /\ cmdPc = "bind"
    /\ cmdText = <<>>
    /\ cmdInvoked = NotRouted

CmdIdle ==
    /\ cmdHandlers = <<>>
    /\ cmdPc = "idle"
    /\ cmdText = <<>>
    /\ cmdInvoked = NotRouted

\* b.BindCommand(command, handlerFunc): the handler is registered under the
\* canonical pattern.  name is kept to tell how the route was bound.
BindCommand ==
    /\ cmdPc = "bind"
    /\ Len(cmdHandlers) < MaxRoutes
    /\ \E command \in Commands :
           cmdHandlers' = Append(cmdHandlers,
                                 [pattern |-> CommandPattern(command), name |-> command])
    /\ UNCHANGED <<notCmdVars, cmdPc, cmdText, cmdInvoked>>

\* Route binding is over; the bot starts.
CmdStart ==
    /\ cmdPc = "bind"
    /\ cmdPc' = "ready"
    /\ UNCHANGED <<notCmdVars, cmdHandlers, cmdText, cmdInvoked>>

\* A message arrives: the bot runs a registered handler whose pattern
\* matches the text, or the default handler when none matches.
CmdDispatch ==
    /\ cmdPc = "ready"
    /\ \E text \in MsgTexts :
        /\ cmdText' = text
        /\ LET M == {i \in 1..Len(cmdHandlers) : Match(text, cmdHandlers[i].pattern)}
           IN  IF M = {} THEN cmdInvoked' = DefaultRoute
               ELSE \E i \in M : cmdInvoked' = RouteOf(i)
    /\ cmdPc' = "done"
    /\ UNCHANGED <<notCmdVars, cmdHandlers>>

CmdNext ==
    \/ BindCommand
    \/ CmdStart
    \/ CmdDispatch

(***************************************************************************)
(* MarshalData, UnmarshalData                                              *)
(***************************************************************************)
\* bound: longest route
MaxRouteLen == 2
\* bound: largest Number of a payload
MaxNumber == 11
\* bound: longest Text of a payload
MaxPayloadTextLen == 2
\* bound: longest callback data that MarshalData did not produce
MaxRawLen == 3

\* Strings are sequences of characters.
Routes == SeqsUpTo({"t", ":"}, MaxRouteLen)
\* testDataStruct{Number, Text}
Payloads == [number : 0..MaxNumber, text : SeqsUpTo({"a", ":", ","}, MaxPayloadTextLen)]
NoPayload == [kind |-> "nil"]
RawData == SeqsUpTo({"t", ":", "[", "1"}, MaxRawLen)
ErrFormat == [kind |-> "invalid data format"]
ErrJson == [kind |-> "json"]
DigitChars == {"0", "1", "2", "3", "4", "5", "6", "7", "8", "9"}
DigitValue(c) == CHOOSE d \in 0..9 : Digits[d + 1] = c

\* The decimal digits of n >= 0
RECURSIVE ItoaChars(_)
ItoaChars(n) ==
    IF n < 10 THEN <<Digits[n + 1]>> ELSE Append(ItoaChars(n \div 10), Digits[(n % 10) + 1])
\* The number a non-empty sequence of digits denotes
RECURSIVE Atoi(_)
Atoi(ds) ==
    IF Len(ds) = 1 THEN DigitValue(ds[1])
    ELSE 10 * Atoi(SubSeq(ds, 1, Len(ds) - 1)) + DigitValue(ds[Len(ds)])

\* jsoncompressor.Marshal of a testDataStruct: the JSON array of its field
\* values, [123,"456"]
JsonMarshal(v) ==
    <<"[">> \o ItoaChars(v.number) \o <<",", "\"">> \o v.text \o <<"\"", "]">>

\* jsoncompressor.Unmarshal into a testDataStruct: [ok, v]
JsonUnmarshal(b) ==
    LET commas == {i \in 1..Len(b) : b[i] = ","}
        c == CHOOSE i \in commas : \A j \in commas : i <= j
        digits == SubSeq(b, 2, c - 1)
    IN  IF /\ Len(b) >= 6
           /\ b[1] = "["
           /\ b[Len(b)] = "]"
           /\ b[Len(b) - 1] = "\""
           /\ commas # {}
           /\ c >= 3
           /\ c + 1 < Len(b) - 1
           /\ b[c + 1] = "\""
           /\ \A i \in 1..Len(digits) : digits[i] \in DigitChars
           /\ \A i \in (c + 2)..(Len(b) - 2) : b[i] # "\""
        THEN [ok |-> TRUE, v |-> [number |-> Atoi(digits), text |-> SubSeq(b, c + 2, Len(b) - 2)]]
        ELSE [ok |-> FALSE, v |-> NoPayload]

\* strings.SplitN(data, ":", 2)
ColonsOf(data) == {i \in 1..Len(data) : data[i] = ":"}
SplitAtLastColon(data) ==
    IF ColonsOf(data) = {} THEN <<data>>
    ELSE LET c == CHOOSE i \in ColonsOf(data) : \A j \in ColonsOf(data) : i >= j
         IN  <<SubSeq(data, 1, c - 1), SubSeq(data, c + 1, Len(data))>>
SplitN2(data) ==
    IF ColonsOf(data) = {} THEN <<data>>
    ELSE LET c == CHOOSE i \in ColonsOf(data) : \A j \in ColonsOf(data) : i <= j
         IN  <<SubSeq(data, 1, c - 1), SubSeq(data, c + 1, Len(data))>>

\* fmt.Sprintf("%s:%s", route, string(b))
MarshalData(route, data) == route \o <<":">> \o JsonMarshal(data)

UnmarshalData(data) ==
    LET cmp == SplitN2(data)
    IN  IF Len(cmp) # 2
        THEN [route |-> <<>>, v |-> NoPayload, err |-> ErrFormat]
        ELSE IF ~JsonUnmarshal(cmp[2]).ok
             THEN [route |-> cmp[1], v |-> NoPayload, err |-> ErrJson]
             ELSE [route |-> cmp[1], v |-> JsonUnmarshal(cmp[2]).v, err |-> Nil]

EncInit ==
    /\ encRoute \in Routes
    /\ encPayload \in Payloads
    /\ encData = <<>>
    /\ encOut = NoResult
    /\ encPc = "start"

EncIdle ==
    /\ encRoute = <<>>
    /\ encPayload = NoPayload
    /\ encData = <<>>
    /\ encOut = NoResult
    /\ encPc = "idle"

\* data := MarshalData(route, payload)
EncMarshal ==
    /\ encPc = "start"
    /\ encData' = MarshalData(encRoute, encPayload)
    /\ encPc' = "marshalled"
    /\ UNCHANGED <<notEncVars, encRoute, encPayload, encOut>>

\* UnmarshalData(data) of what MarshalData returned
EncUnmarshal ==
    /\ encPc = "marshalled"
    /\ encOut' = UnmarshalData(encData)
    /\ encPc' = "done"
    /\ UNCHANGED <<notEncVars, encRoute, encPayload, encData>>

\* UnmarshalData(data) of callback data that MarshalData did not produce
EncUnmarshalRaw ==
    /\ encPc = "start"
    /\ encRoute = <<>> /\ encPayload = [number |-> 0, text |-> <<>>]
    /\ \E raw \in RawData :
        /\ encData' = raw
        /\ encOut' = UnmarshalData(raw)
    /\ encPc' = "rawdone"
    /\ UNCHANGED <<notEncVars, encRoute, encPayload>>

EncNext ==
    \/ EncMarshal
    \/ EncUnmarshal
    \/ EncUnmarshalRaw

(***************************************************************************)
(* TmaAuth: GenerateToken, ParseToken                                      *)
(***************************************************************************)
\* bound: largest auth timestamp of the claims
MaxAuthDate == 2
\* bound: largest TmaAuth.expIn, in seconds
MaxExpIn == 2
\* bound: the wall clock stops here
MaxTime == 4
\* bound: largest User.ID
MaxUserId == 11

Secrets == {"s1", "s2"}
NilClaims == [kind |-> "nil"]
NoHash == <<>>
\* hmac-sha256 as a keyed digest: equal exactly for equal message and key
Hmac(msg, key) == <<"hmac", key, msg>>
\* a Hash the claims carried before GenerateToken
StaleHash == Hmac(<<>>, "s0")
\* Claims: AuthDateRaw, CanSendAfterRaw, Hash, QueryID, User.ID
ClaimsValues ==
    [authDate : 0..MaxAuthDate, canSendAfter : {0, 1}, hash : {NoHash, StaleHash},
     queryId : {<<>>, <<"q">>}, userId : {1, MaxUserId}]
ErrNilClaims == [kind |-> "claims must not be nil"]
ErrSignMissing == [kind |-> "sign is missing"]
ErrAuthDateMissing == [kind |-> "auth_date is missing"]
ErrExpired == [kind |-> "init data is expired"]
ErrSignInvalid == [kind |-> "sign is invalid"]
ErrUnexpectedFormat == [kind |-> "unexpected init data format"]
\* the json names of the fields, in sort.Strings order
KeyOrder == <<"auth_date", "can_send_after", "hash", "query_id", "user">>

IsDigits(cs) == Len(cs) > 0 /\ \A i \in 1..Len(cs) : cs[i] \in DigitChars

\* json.Marshal(claims) decoded with UseNumber into map[string]any
RawInitMap(claims) ==
    [k \in {KeyOrder[i] : i \in 1..Len(KeyOrder)} |->
        CASE k = "auth_date" -> [kind |-> "number", n |-> claims.authDate]
          [] k = "can_send_after" -> [kind |-> "number", n |-> claims.canSendAfter]
          [] k = "hash" -> [kind |-> "string", s |-> claims.hash]
          [] k = "query_id" -> [kind |-> "string", s |-> claims.queryId]
          [] k = "user" -> [kind |-> "object", id |-> claims.userId]]

\* json.Marshal of the user object: {"id":1}
JsonUser(id) == <<"{", "\"", "i", "d", "\"", ":">> \o ItoaChars(id) \o <<"}">>

\* the loop body of GenerateToken: string, json.Number, or json.Marshal(v)
RenderValue(v) ==
    CASE v.kind = "string" -> v.s
      [] v.kind = "number" -> ItoaChars(v.n)
      [] v.kind = "object" -> JsonUser(v.id)

\* params after delete(rawInitMap, "hash") and delete(rawInitMap, "auth_date")
Params(raw) == [k \in DOMAIN raw \ {"hash", "auth_date"} |-> RenderValue(raw[k])]

\* the pairs of a map in the order of their keys
SortedPairs(m) ==
    LET ks == SelectSeq(KeyOrder, LAMBDA k : k \in DOMAIN m)
    IN  [i \in 1..Len(ks) |-> <<ks[i], m[ks[i]]>>]

\* initdata.Sign(payload, key, authDate)
Sign(payload, key, authDate) ==
    Hmac(SortedPairs([k \in (DOMAIN payload \ {"hash", "auth_date"}) \cup {"auth_date"} |->
                         IF k = "auth_date" THEN ItoaChars(authDate) ELSE payload[k]]), key)

\* values.Set("hash", sign); values.Set("auth_date", ...)
EmittedValuesNoAuthDate(params, sign, exp) ==
    [k \in DOMAIN params \cup {"hash"} |-> IF k = "hash" THEN sign ELSE params[k]]
EmittedValues(params, sign, exp) ==
    [k \in DOMAIN params \cup {"hash", "auth_date"} |->
        CASE k = "hash" -> sign
          [] k = "auth_date" -> ItoaChars(exp)
          [] OTHER -> params[k]]

\* url.Values.Encode: the pairs sorted by key
Encode(values) == SortedPairs(values)
\* url.ParseQuery
ParseQuery(token) ==
    [k \in {token[i][1] : i \in 1..Len(token)} |->
        token[CHOOSE i \in 1..Len(token) : token[i][1] = k][2]]

GenerateToken(secret, claims) ==
    IF claims = NilClaims
    THEN [token |-> <<>>, err |-> ErrNilClaims]
    ELSE LET params == Params(RawInitMap(claims))
             exp == claims.authDate
             sign == Sign(params, secret, exp)
         IN  [token |-> Encode(EmittedValues(params, sign, exp)), err |-> Nil]

\* initdata.Validate(token, secret, expIn) at time now
Validate(token, secret, expIn, now) ==
    LET q == ParseQuery(token)
        hash == IF "hash" \in DOMAIN q THEN q["hash"] ELSE NoHash
        hasDate == "auth_date" \in DOMAIN q /\ IsDigits(q["auth_date"])
        pairs == SortedPairs([k \in DOMAIN q \ {"hash"} |-> q[k]])
    IN  IF hash = NoHash THEN ErrSignMissing
        ELSE IF expIn > 0 /\ ~hasDate THEN ErrAuthDateMissing
        ELSE IF expIn > 0 /\ Atoi(q["auth_date"]) + expIn < now THEN ErrExpired
        ELSE IF Hmac(pairs, secret) # hash THEN ErrSignInvalid
        ELSE Nil

\* the id of a user object, or -1
ParseUser(cs) ==
    IF /\ Len(cs) >= 8
       /\ SubSeq(cs, 1, 6) = <<"{", "\"", "i", "d", "\"", ":">>
       /\ cs[Len(cs)] = "}"
       /\ IsDigits(SubSeq(cs, 7, Len(cs) - 1))
    THEN Atoi(SubSeq(cs, 7, Len(cs) - 1))
    ELSE -1

\* initdata.Parse(token): [ok, claims]
Parse(token) ==
    LET q == ParseQuery(token)
        Number(k) == IF k \in DOMAIN q THEN (IF IsDigits(q[k]) THEN Atoi(q[k]) ELSE -1) ELSE 0
        String(k) == IF k \in DOMAIN q THEN q[k] ELSE <<>>
        user == IF "user" \in DOMAIN q THEN ParseUser(q["user"]) ELSE 0
    IN  IF Number("auth_date") < 0 \/ Number("can_send_after") < 0 \/ user < 0
        THEN [ok |-> FALSE, claims |-> NilClaims]
        ELSE [ok |-> TRUE,
              claims |-> [authDate |-> Number("auth_date"),
                          canSendAfter |-> Number("can_send_after"),
                          hash |-> String("hash"),
                          queryId |-> String("query_id"),
                          userId |-> user]]

ParseToken(secret, expIn, now, token) ==
    IF Validate(token, secret, expIn, now) # Nil
    THEN [claims |-> NilClaims, err |-> Validate(token, secret, expIn, now)]
    ELSE IF ~Parse(token).ok
         THEN [claims |-> NilClaims, err |-> ErrUnexpectedFormat]
         ELSE [claims |-> Parse(token).claims, err |-> Nil]

TmaInit ==
    /\ tmaGenSecret \in Secrets
    /\ tmaSecret \in Secrets
    /\ tmaExpIn \in 0..MaxExpIn
    /\ tmaNow = 0
    /\ tmaClaims \in ClaimsValues \cup {NilClaims}
    /\ tmaToken = <<>>
    /\ tmaOut = NoResult
    /\ tmaPc = "start"

TmaIdle ==
    /\ tmaGenSecret = ""
    /\ tmaSecret = ""
    /\ tmaExpIn = 0
    /\ tmaNow = 0
    /\ tmaClaims = NilClaims
    /\ tmaToken = <<>>
    /\ tmaOut = NoResult
    /\ tmaPc = "idle"

\* token, err := NewTmaAuth(genSecret, _).GenerateToken(ctx, claims)
TmaGenerate ==
    /\ tmaPc = "start"
    /\ tmaToken' = GenerateToken(tmaGenSecret, tmaClaims).token
    /\ tmaOut' = [claims |-> NilClaims, err |-> GenerateToken(tmaGenSecret, tmaClaims).err]
    /\ tmaPc' = IF GenerateToken(tmaGenSecret, tmaClaims).err = Nil THEN "generated" ELSE "failed"
    /\ UNCHANGED <<notTmaVars, tmaGenSecret, tmaSecret, tmaExpIn, tmaNow, tmaClaims>>

\* a second passes
TmaTick ==
    /\ tmaPc \in {"start", "generated"}
    /\ tmaNow < MaxTime
    /\ tmaNow' = tmaNow + 1
    /\ UNCHANGED <<notTmaVars, tmaGenSecret, tmaSecret, tmaExpIn, tmaClaims, tmaToken, tmaOut, tmaPc>>

\* claims, err := NewTmaAuth(secret, expIn).ParseToken(ctx, token)
TmaParse ==
    /\ tmaPc = "generated"
    /\ tmaOut' = ParseToken(tmaSecret, tmaExpIn, tmaNow, tmaToken)
    /\ tmaPc' = "parsed"
    /\ UNCHANGED <<notTmaVars, tmaGenSecret, tmaSecret, tmaExpIn, tmaNow, tmaClaims, tmaToken>>

TmaNext ==
    \/ TmaGenerate
    \/ TmaTick
    \/ TmaParse

(***************************************************************************)
(* contextWithValues, values.Value for keys of any type                    *)
(***************************************************************************)
\* bound: how many *values wrappers are put around one context
MaxOverlays == 2

\* A key is a Go value with its dynamic type: a string, or a value of a
\* named string type (type ctxKey string), which key.(string) rejects.
KeyTypes == {"string", "ctxKey"}
LookupKeys == [type : KeyTypes, name : ClaimKeys]
\* The values the incoming context holds, under keys of either type.
TypedBases ==
    UNION {[D -> ClaimValues] :
              D \in SUBSET {k \in LookupKeys : k.type = "ctxKey" \/ k.name = "uid"}}
\* map[string]any: nil, empty, or with entries; len(nil) = 0
OverlayData ==
    {[isNil |-> TRUE, entries |-> EmptyMap]} \cup
    {[isNil |-> FALSE, entries |-> m] : m \in ClaimMaps}

\* ctx.Value(key): the first layer is the incoming context, with its own
\* typed keys; the layers above it are *values wrappers.
RECURSIVE ValueAnyStringified(_, _)
ValueAnyStringified(ctx, key) ==
    IF Len(ctx) = 1
    THEN IF key \in DOMAIN ctx[1] THEN ctx[1][key] ELSE NoValue
    ELSE IF key.name \in DOMAIN ctx[Len(ctx)]
         THEN ctx[Len(ctx)][key.name]
         ELSE ValueAnyStringified(SubSeq(ctx, 1, Len(ctx) - 1), key)
RECURSIVE ValueAny(_, _)
ValueAny(ctx, key) ==
    IF Len(ctx) = 1
    THEN IF key \in DOMAIN ctx[1] THEN ctx[1][key] ELSE NoValue
    ELSE IF key.type = "string" /\ key.name \in DOMAIN ctx[Len(ctx)]
         THEN ctx[Len(ctx)][key.name]
         ELSE ValueAny(SubSeq(ctx, 1, Len(ctx) - 1), key)

ValInit ==
    /\ vPrev = NoContext
    /\ vData = NoResult
    /\ vCtx \in {<<b>> : b \in TypedBases}
    /\ vWraps = 0
    /\ vKey = NoResult
    /\ vOut = NoValue
    /\ vPc = "start"

ValIdle ==
    /\ vPrev = NoContext
    /\ vData = NoResult
    /\ vCtx = NoContext
    /\ vWraps = 0
    /\ vKey = NoResult
    /\ vOut = NoValue
    /\ vPc = "idle"

\* ctx = contextWithValues(ctx, data)
ValWrap ==
    /\ vPc \in {"start", "wrapped", "looked"}
    /\ vWraps < MaxOverlays
    /\ \E data \in OverlayData :
        /\ vData' = data
        /\ vCtx' = ContextWithValues(vCtx, data.entries)
    /\ vPrev' = vCtx
    /\ vWraps' = vWraps + 1
    /\ vKey' = NoResult
    /\ vOut' = NoValue
    /\ vPc' = "wrapped"
    /\ UNCHANGED notValVars

\* ctx.Value(key)
ValLookup ==
    /\ vPc = "wrapped"
    /\ \E key \in LookupKeys :
        /\ vKey' = key
        /\ vOut' = ValueAny(vCtx, key)
    /\ vPc' = "looked"
    /\ UNCHANGED <<notValVars, vPrev, vData, vCtx, vWraps>>

ValNext ==
    \/ ValWrap
    \/ ValLookup

(***************************************************************************)
(* Binding several routes: appendMiddlewares, BindNoRoute, BindCommand,    *)
(* BindCallback                                                            *)
(***************************************************************************)
\* bound: how many BindCommand and BindCallback calls are made
MaxBinds == 2

\* The middlewares passed to the Bind calls, and the lists a call passes.
BindMws == {"r1", "r2"}
BindLists == {<<>>, <<"r1">>, <<"r2">>, <<"r1", "r2">>, <<"r2", "r1">>}

\* Bot.middlewares after a Bind call: appendMiddlewares copies into a new
\* slice and assigns nothing.
MiddlewaresAfterBindAppended(own, middlewares) == own \o middlewares
MiddlewaresAfterBind(own, middlewares) == own

\* The Bot as NewApp returns it.
RtInit ==
    /\ rtGlobal \in SeqsUpTo(GlobalMws, MaxGlobalMws)
    /\ rtMws = AppMiddlewares(rtGlobal)
    /\ rtRoutes = <<>>
    /\ rtNoRoute = NoResult
    /\ rtPc = "bind"

RtIdle ==
    /\ rtGlobal = <<>>
    /\ rtMws = <<>>
    /\ rtRoutes = <<>>
    /\ rtNoRoute = NoResult
    /\ rtPc = "idle"

\* WithMiddleware(handlerFunc, b.errorHandler, b.appendMiddlewares(middlewares...)...)
BoundHandler(middlewares) == Compose(<<Terminal>>, AppendMiddlewares(rtMws, middlewares))

\* BindCommand(command, handlerFunc, middlewares...)
RtBindCommand ==
    /\ rtPc = "bind"
    /\ Len(rtRoutes) < MaxBinds
    /\ \E middlewares \in BindLists :
        /\ rtRoutes' = Append(rtRoutes, [kind |-> "command", own |-> middlewares,
                                         chain |-> BoundHandler(middlewares)])
        /\ rtMws' = MiddlewaresAfterBind(rtMws, middlewares)
    /\ UNCHANGED <<notRtVars, rtGlobal, rtNoRoute, rtPc>>

\* BindCallback(route, handlerFunc, middlewares...)
RtBindCallback ==
    /\ rtPc = "bind"
    /\ Len(rtRoutes) < MaxBinds
    /\ \E middlewares \in BindLists :
        /\ rtRoutes' = Append(rtRoutes, [kind |-> "callback", own |-> middlewares,
                                         chain |-> BoundHandler(middlewares)])
        /\ rtMws' = MiddlewaresAfterBind(rtMws, middlewares)
    /\ UNCHANGED <<notRtVars, rtGlobal, rtNoRoute, rtPc>>

\* BindNoRoute(handlerFunc, middlewares...)
RtBindNoRoute ==
    /\ rtPc = "bind"
    /\ \E middlewares \in BindLists :
        /\ rtNoRoute' = [own |-> middlewares, chain |-> BoundHandler(middlewares)]
        /\ rtMws' = MiddlewaresAfterBind(rtMws, middlewares)
    /\ UNCHANGED <<notRtVars, rtGlobal, rtRoutes, rtPc>>

RtNext ==
    \/ RtBindCommand
    \/ RtBindCallback
    \/ RtBindNoRoute

(***************************************************************************)
(* Claims about RetryOnTooManyRequestsError (SpecRetry)                    *)
(***************************************************************************)
RetryAllRateLimited(n) == \A k \in 1..n : rOut[k].kind = "tooMany"

\* C7: the outcome of RetryOnTooManyRequestsError(maxRetries, send) as a
\* function of send's outcomes: send is invoked again only after a
\* rate-limit failure and at most maxRetries+1 times (never when maxRetries
\* is negative); the call returns nil at the first success, any other error
\* unchanged at the invocation that produced it, and "retries exceeded"
\* exactly after maxRetries+1 rate-limit failures (after none when
\* maxRetries is negative).
C7_RetryOutcome ==
    LET n == Len(rOut) IN
    /\ RetryAllRateLimited(n - 1)
    /\ n <= (IF rMax < 0 THEN 0 ELSE rMax + 1)
    /\ rPc = "call" => RetryAllRateLimited(n)
    /\ rPc = "done" =>
        /\ rRes \in {Nil, ErrRetriesExceeded} \cup OtherErrors
        /\ (rRes = Nil) <=> (n >= 1 /\ rOut[n] = Nil)
        /\ (rRes \in OtherErrors) <=> (n >= 1 /\ rOut[n] \in OtherErrors)
        /\ (rRes \in OtherErrors) => rRes = rOut[n]
        /\ (rRes = ErrRetriesExceeded) <=>
               (RetryAllRateLimited(n) /\ n = (IF rMax < 0 THEN 0 ELSE rMax + 1))
        /\ rMax < 0 => (n = 0 /\ rRes = ErrRetriesExceeded)

\* retry(2, op), op failing twice with a rate-limit error and then
\* succeeding: nil after three invocations.
C7_Witness ==
    /\ rPc = "done"
    /\ rMax = 2
    /\ Len(rOut) = 3
    /\ rOut[1].kind = "tooMany"
    /\ rOut[2].kind = "tooMany"
    /\ rRes = Nil

(***************************************************************************)
(* Claims about BroadcastMessage (SpecBroadcast)                           *)
(***************************************************************************)
\* Number of the first j sends that returned an error.
SendErrorsAmong(j) ==
    Cardinality({k \in 1..j : k <= Len(bSendOut) /\ bSendOut[k] # Nil})

FinalReports == {j \in 1..Len(bReports) : bReports[j][1] = bTotal}

\* C3: with a progress sink, sends happen in input order, the send of
\* target i is preceded by the report (i, errors so far, n), the reported
\* indices are 0,1,2,..., and a report with index n is made exactly once,
\* last, after all n sends, exactly when the call returns nil.
C3_ProgressProtocol ==
    bProgress =>
        /\ \A j \in 1..Len(bSends) : bSends[j] = j - 1
        /\ Len(bSends) <= Len(bReports)
        /\ \A j \in 1..Len(bSends) :
               bReports[j] = <<j - 1, SendErrorsAmong(j - 1), bTotal>>
        /\ \A j \in 1..Len(bReports) : bReports[j][1] = j - 1
        /\ Cardinality(FinalReports) <= 1
        /\ (FinalReports # {}) <=> (bPc = "done" /\ bRes = Nil)
        /\ FinalReports # {} =>
               /\ FinalReports = {Len(bReports)}
               /\ Len(bSends) = bTotal
               /\ Len(bSendOut) = bTotal

\* Three targets, the second send failing: the call returned nil after the
\* reports (0,0,3) (1,0,3) (2,1,3) (3,1,3).
C3_Witness ==
    /\ bProgress
    /\ bPc = "done"
    /\ bRes = Nil
    /\ bTotal = 3
    /\ bReports = << <<0, 0, 3>>, <<1, 0, 3>>, <<2, 1, 3>>, <<3, 1, 3>> >>

AllSent == bSends = [j \in 1..bTotal |-> j - 1]

\* C4 as stated: with stopOnFirstError=false and no cancellation every
\* target is sent, the call returns nil and the final report carries the
\* number of failed sends.
C4_AsStated ==
    (bPc = "done" /\ ~bStop /\ ~bCtxDone) =>
        /\ AllSent
        /\ bRes = Nil
        /\ bProgress => bReports[Len(bReports)] = <<bTotal, SendErrorsAmong(bTotal), bTotal>>

\* C4 amended: the same, for a call in which no rate-limiter wait returned
\* an error of its own.
C4_ContinueOnError ==
    (bPc = "done" /\ ~bStop /\ ~bCtxDone /\ bRes # ErrLimiter) =>
        /\ AllSent
        /\ bRes = Nil
        /\ bProgress => bReports[Len(bReports)] = <<bTotal, SendErrorsAmong(bTotal), bTotal>>

\* Three targets, only the second send failing, stopOnFirstError=false:
\* sends 0,1,2, final report (3,1,3), result nil.
C4_Witness ==
    /\ bPc = "done"
    /\ ~bStop
    /\ ~bCtxDone
    /\ bProgress
    /\ bTotal = 3
    /\ bSends = <<0, 1, 2>>
    /\ bSendOut[1] = Nil /\ bSendOut[2] # Nil /\ bSendOut[3] = Nil
    /\ bReports[4] = <<3, 1, 3>>
    /\ bRes = Nil

\* C5: with stopOnFirstError=true no send follows a failed send, and the
\* call has returned exactly the error of that send.
C5_StopOnFirstError ==
    bStop =>
        /\ \A k \in 1..(Len(bSendOut) - 1) : bSendOut[k] = Nil
        /\ (Len(bSendOut) >= 1 /\ bSendOut[Len(bSendOut)] # Nil) =>
               /\ bPc = "done"
               /\ bRes = bSendOut[Len(bSendOut)]
               /\ Len(bSends) = Len(bSendOut)

\* Three targets, the second send failing with stopOnFirstError=true: the
\* call returned that error and the third target was never sent.
C5_Witness ==
    /\ bStop
    /\ bPc = "done"
    /\ bTotal = 3
    /\ bSends = <<0, 1>>
    /\ bSendOut[1] = Nil
    /\ bSendOut[2] \in OtherErrors
    /\ bRes = bSendOut[2]

\* C6: once ctx is cancelled no further target is sent, and a call that was
\* cancelled while a target was still unsent returns a non-nil error.
C6_Cancellation ==
    /\ bCancelAt # -1 => Len(bSends) = bCancelAt
    /\ (bPc = "done" /\ bCancelAt # -1 /\ bCancelAt < bTotal) =>
           bRes \in {ErrCtx, ErrLimiter} \cup OtherErrors

\* A call over three targets cancelled after the first send, while the
\* second target waited for the limiter: it returned ctx.Err() with one
\* target sent.
C6_Witness ==
    /\ bPc = "done"
    /\ bTotal = 3
    /\ bTokens = 0
    /\ bCancelAt = 1
    /\ bI = 1
    /\ Len(bReports) = 2
    /\ bSends = <<0>>
    /\ bRes = ErrCtx

(***************************************************************************)
(* Claims about WithMiddleware (SpecChain)                                 *)
(***************************************************************************)
Reverse(s) == [i \in 1..Len(s) |-> s[Len(s) + 1 - i]]
IsPrefix(s, t) == Len(s) <= Len(t) /\ \A i \in 1..Len(s) : s[i] = t[i]

IsCall(e) == e[1] = "call"
IsRet(e) == e[1] = "ret"
Names(events) == [i \in 1..Len(events) |-> events[i][2]]
CallsLogged == Names(SelectSeq(cLog, IsCall))
ReturnsLogged == Names(SelectSeq(cLog, IsRet))

\* The frames a dispatch through [m1..mn] and T enters: m1, m2, ... up to
\* and including the first middleware that does not call next, or up to mn
\* and then T when every middleware calls next.
AbortingAt == {i \in 1..Len(cMws) : cMws[i] \in AbortMiddlewares}
FirstAbort == CHOOSE i \in AbortingAt : \A j \in AbortingAt : i <= j
FramesEntered ==
    IF AbortingAt = {} THEN cMws \o <<Terminal>> ELSE SubSeq(cMws, 1, FirstAbort)

\* C2: a dispatch enters m1, m2, ..., mn, T in this order and the returns
\* are observed in the reverse order T, mn, ..., m1.
C2_CompositionOrder ==
    /\ IsPrefix(CallsLogged, FramesEntered)
    /\ cPc \in {"boundary", "done"} =>
        /\ CallsLogged = FramesEntered
        /\ ReturnsLogged = Reverse(FramesEntered)
        /\ cLog = [i \in 1..Len(CallsLogged) |-> <<"call", CallsLogged[i]>>]
                  \o [i \in 1..Len(ReturnsLogged) |-> <<"ret", ReturnsLogged[i]>>]

\* Chain [A,B] with terminal T: calls A,B,T; returns T,B,A.
C2_Witness ==
    /\ cPc = "done"
    /\ cMws = <<"A", "B">>
    /\ cLog = << <<"call", "A">>, <<"call", "B">>, <<"call", "T">>,
                 <<"ret", "T">>, <<"ret", "B">>, <<"ret", "A">> >>

(***************************************************************************)
(* Claims about NewSingleFlightMiddleware (SpecSF)                         *)
(***************************************************************************)
RunningFor(k) == {e \in 1..Len(sfExec) : sfExec[e].key = k /\ sfExec[e].res = NoResult}

\* C1: callback queries with the same origin message id that arrive while
\* an execution of the downstream handler for that message is in flight do
\* not execute it again (one execution in flight per message id), and each
\* of them, like the caller that executes it, returns the value that
\* execution produced.
C1_SingleFlight ==
    /\ \A m \in MsgIds : Cardinality(RunningFor(Itoa(m))) <= 1
    /\ \A p \in Callers :
        /\ sfSaw[p] # 0 => sfMine[p] = 0
        /\ (sfSaw[p] # 0 /\ sfPc[p] = "done") => sfRet[p] = sfExec[sfSaw[p]].res
        /\ (sfSaw[p] # 0 /\ sfPc[p] = "waiting") => sfRet[p] = NoResult
        /\ (sfMine[p] # 0 /\ sfPc[p] = "done") => sfRet[p] = sfExec[sfMine[p]].res

\* Three callback queries of message 1 overlapped one execution, which
\* failed: one execution, and all three callers returned its error.
C1_Witness ==
    /\ Len(sfExec) = 1
    /\ sfExec[1].res \in OtherErrors
    /\ \A p \in 1..3 :
        /\ sfPc[p] = "done"
        /\ sfUpd[p].kind = "callback"
        /\ sfUpd[p].msg = 1
        /\ sfRet[p] = sfExec[1].res
    /\ Cardinality({p \in 1..3 : sfSaw[p] = 1}) = 2

(***************************************************************************)
(* Claims about NewGroupMessageFilterMiddleware                            *)
(***************************************************************************)
GetMeCallsInFlight == {g \in 1..Len(fGetMe) : fGetMe[g].res = NoResult}
\* dispatchers that have left getBotInfo
Resolved(p) == fPc[p] \in {"scan", "done", "panic"}

\* C8: bot identity cache.  GetMe is never invoked while a successfully
\* fetched identity younger than infoExpire is cached, and two successful
\* refreshes are at least infoExpire apart; at most one GetMe call is in
\* flight at any time; a group event arriving while a GetMe call is in flight
\* makes no call of its own and observes that call's result: the very user
\* it returned, or its error.
C8_IdentityCache ==
    /\ \A g \in 1..Len(fGetMe) :
           fGetMe[g].hadUser => (fGetMe[g].at - fGetMe[g].ts >= InfoExpire)
    /\ \A g, h \in 1..Len(fGetMe) :
           (g < h /\ fGetMe[g].res = Nil /\ fGetMe[h].res = Nil)
               => (fGetMe[h].at - fGetMe[g].doneAt >= InfoExpire)
    /\ Cardinality(GetMeCallsInFlight) <= 1
    /\ \A p \in DOMAIN fPc :
           (fSaw[p] # 0) =>
               /\ fMine[p] = 0
               /\ \A q \in DOMAIN fPc : (fMine[q] = fSaw[p]) => (fJoin[q] = fJoin[p])
               /\ Resolved(p) => (fGetMe[fSaw[p]].res # NoResult)
               /\ (Resolved(p) /\ fGetMe[fSaw[p]].res = Nil) =>
                      (fIdent[p] = BotUser(fSaw[p]))
               /\ (Resolved(p) /\ fGetMe[fSaw[p]].res # Nil) =>
                      (fRet[p] = fGetMe[fSaw[p]].res /\ fDown[p] = NoUpdate)
    /\ \A p \in DOMAIN fPc :
           (fMine[p] # 0 /\ Resolved(p)) =>
               IF fGetMe[fMine[p]].res = Nil
               THEN fIdent[p] = BotUser(fMine[p])
               ELSE fRet[p] = fGetMe[fMine[p]].res /\ fDown[p] = NoUpdate

\* Two group events found an expired identity: the first called GetMe, the
\* second arrived during the call, and both hold the user that call returned.
C8_Witness ==
    \E p, q \in DOMAIN fPc :
        /\ p # q
        /\ fMine[p] # 0
        /\ fGetMe[fMine[p]].hadUser
        /\ fSaw[q] = fMine[p]
        /\ Resolved(p) /\ Resolved(q)
        /\ fIdent[p] = BotUser(fMine[p])
        /\ fIdent[q] = BotUser(fMine[p])

\* An update that is not a message in a group, supergroup or channel chat.
NonGroupEvent(u) == u.kind = "callback" \/ (u.kind = "message" /\ u.chat = "private")

\* C9: mention filter, non-group events.  A private-chat message or an update
\* with no message is passed to the downstream handler exactly as received
\* (text and caption unchanged), with no identity lookup: getBotInfo is not
\* called, no GetMe call is made or joined.
C9_NonGroupPassThrough ==
    \A p \in DOMAIN fPc :
        (fPc[p] # "idle" /\ NonGroupEvent(fOrig[p])) =>
            /\ fPc[p] = "done"
            /\ fDown[p] = fOrig[p]
            /\ fUpd[p] = fOrig[p]
            /\ ~fLooked[p]
            /\ fMine[p] = 0 /\ fJoin[p] = 0 /\ fSaw[p] = 0
            /\ fIdent[p] = NoUser

\* A private-chat message mentioning the bot, with trimming on, went downstream.
C9_Witness ==
    \E p \in DOMAIN fPc :
        /\ fPc[p] = "done"
        /\ fTrim
        /\ fOrig[p].kind = "message" /\ fOrig[p].chat = "private"
        /\ fOrig[p].text = AtName(BotUsername)
        /\ fOrig[p].entities = <<BotMention>>
        /\ fDown[p] = fOrig[p]

\* An entity of the text as received addresses the bot.
Addresses(text, e) ==
    LET str == SubSeq(text, e.offset + 1, e.offset + e.length)
    IN  \/ e.type = "mention" /\ str = AtName(BotUsername)
        \/ e.type = "text_mention" /\ e.user = BotId
        \/ e.type = "bot_command" /\ HasSuffix(str, AtName(BotUsername))
\* A group message that is no reply to the bot and whose text and caption
\* entities do not address it.
UnaddressedGroupEvent(u) ==
    /\ u.kind = "message"
    /\ u.chat \in GroupChatTypes
    /\ u.replyFrom # BotId
    /\ \A i \in 1..Len(u.entities) : ~Addresses(u.text, u.entities[i])
    /\ \A i \in 1..Len(u.capEntities) : ~Addresses(u.caption, u.capEntities[i])
Swallowed(p) == fRet[p] = Nil /\ fDown[p] = NoUpdate /\ fHandled[p] = <<>>

\* C10 as stated: the filter returns nil on every unaddressed group event,
\* without a downstream call and without the error handler.
C10_AsStated ==
    \A p \in DOMAIN fPc :
        (fPc[p] \in {"done", "panic"} /\ UnaddressedGroupEvent(fOrig[p])) =>
            fPc[p] = "done" /\ Swallowed(p)

\* C10: mention filter, unaddressed group events.  For a group, supergroup or
\* channel message that is no reply to the bot and whose text and caption
\* entities do not address the bot, the filter never invokes the downstream
\* handler; when the identity lookup succeeded it returns nil and the error
\* handler is not invoked; when the lookup failed it returns the lookup's
\* error, which reaches the error handler.
C10_UnaddressedSwallowed ==
    \A p \in DOMAIN fPc :
        (fPc[p] \in {"done", "panic"} /\ UnaddressedGroupEvent(fOrig[p])) =>
            /\ fPc[p] = "done"
            /\ fDown[p] = NoUpdate
            /\ (fIdent[p] # NoUser) => Swallowed(p)
            /\ (fIdent[p] = NoUser) => (fRet[p] = ErrGetMe /\ fHandled[p] = <<ErrGetMe>>)

\* A group message whose only entity mentions somebody else was swallowed
\* after a successful lookup.
C10_Witness ==
    \E p \in DOMAIN fPc :
        /\ fPc[p] = "done"
        /\ UnaddressedGroupEvent(fOrig[p])
        /\ fOrig[p].entities # <<>>
        /\ fOrig[p].entities[1].type = "mention"
        /\ fIdent[p] # NoUser
        /\ Swallowed(p)

\* A message in a group, supergroup or channel chat.
GroupEvent(u) == u.kind = "message" /\ u.chat \in GroupChatTypes
\* The identity lookup of p's dispatch has ended with an error.
LookupFailed(p) ==
    /\ fLooked[p]
    /\ fPc[p] \notin {"getMe", "wait"}
    /\ fJoin[p] # 0
    /\ fCalls[fJoin[p]].err \notin {Nil, NoResult}

\* C22: the mention filter is fail-closed.  For a group event whose identity
\* refresh (GetMe) fails, the filter returns that error, the downstream
\* handler is not invoked and the update is not modified, also when the
\* message is a reply to the bot or mentions it.
C22_FailClosed ==
    \A p \in DOMAIN fPc :
        (GroupEvent(fOrig[p]) /\ LookupFailed(p)) =>
            /\ fPc[p] = "done"
            /\ fRet[p] = fCalls[fJoin[p]].err
            /\ fRet[p] = ErrGetMe
            /\ fDown[p] = NoUpdate
            /\ fUpd[p] = fOrig[p]

\* The lookup failed for a reply to the bot that also mentions it, with
\* trimming on.
C22_Witness ==
    \E p \in DOMAIN fPc :
        /\ GroupEvent(fOrig[p]) /\ LookupFailed(p)
        /\ fTrim
        /\ fOrig[p].replyFrom = BotId
        /\ fOrig[p].text = AtName(BotUsername)
        /\ fOrig[p].entities = <<BotMention>>
        /\ fRet[p] = ErrGetMe

\* A GetMe call fails in this step.
GetMeFails ==
    \E g \in 1..Len(fGetMe) : fGetMe[g].res = NoResult /\ fGetMe'[g].res = ErrGetMe
\* p enters the filter with a group event in this step, and finds no lookup
\* in flight and the cache empty or expired.
EntersOnStaleCache(p) ==
    /\ fPc[p] = "idle" /\ fPc'[p] # "idle"
    /\ GroupEvent(fOrig'[p])
    /\ fCur = 0
    /\ ~CacheFresh(fUser, fTs, fNow)

\* C24: a failed identity refresh changes nothing and is not cached.  When
\* GetMe fails, the cached identity and its fetch time stay as they were,
\* and a group event that then finds the cache empty or expired issues a
\* GetMe call of its own, whatever the earlier calls returned.
C24_FailedRefreshNotCached ==
    [][/\ GetMeFails => (fUser' = fUser /\ fTs' = fTs)
       /\ \A p \in DOMAIN fPc :
              EntersOnStaleCache(p) =>
                  /\ fPc'[p] = "getMe"
                  /\ Len(fGetMe') = Len(fGetMe) + 1
                  /\ fMine'[p] = Len(fGetMe')
                  /\ fGetMe'[fMine'[p]].res = NoResult]_vars

\* A refresh of an expired identity failed, and the next group event made
\* a GetMe call of its own, the cache being as the failed call had found it.
C24_Witness ==
    \E g, h \in 1..Len(fGetMe) :
        /\ g < h
        /\ fGetMe[g].res = ErrGetMe
        /\ fGetMe[g].hadUser /\ fGetMe[h].hadUser
        /\ fGetMe[h].ts = fGetMe[g].ts
        /\ fGetMe[h].at >= fGetMe[g].doneAt
        /\ fUser = BotUser(0)

\* The text with the characters of the spans in S removed.
RECURSIVE WithoutSpans(_, _, _)
WithoutSpans(text, S, i) ==
    IF i > Len(text) THEN <<>>
    ELSE (IF \E e \in S : e.offset < i /\ i <= e.offset + e.length THEN <<>> ELSE <<text[i]>>)
             \o WithoutSpans(text, S, i + 1)
\* The entities of a list that address the bot in the text as received.
Addressing(text, entities) ==
    {i \in 1..Len(entities) : Addresses(text, entities[i])}
\* p dispatched a group message that is no reply to the bot, got the bot's
\* identity, and has left the filter.
ScannedGroupEvent(p) ==
    /\ fPc[p] \in {"done", "panic"}
    /\ fOrig[p].kind = "message"
    /\ fOrig[p].chat \in GroupChatTypes
    /\ fOrig[p].replyFrom # BotId
    /\ fIdent[p] # NoUser
\* p's group message addresses the bot through a caption entity and
\* through no text entity, and the filter has handed it downstream.
AddressedByCaptionOnly(p) ==
    /\ ScannedGroupEvent(p)
    /\ fPc[p] = "done"
    /\ Addressing(fOrig[p].text, fOrig[p].entities) = {}
    /\ Addressing(fOrig[p].caption, fOrig[p].capEntities) # {}
\* The caption of p's message without the spans that address the bot.
CaptionExcised(p) ==
    WithoutSpans(fOrig[p].caption,
                 {fOrig[p].capEntities[i] :
                      i \in Addressing(fOrig[p].caption, fOrig[p].capEntities)}, 1)

\* C25 as stated: when the bot is addressed only through a caption entity,
\* the filter leaves Message.Text exactly as received, for both values of
\* trimMention, and applies any excision to Message.Caption.
C25_AsStated ==
    \A p \in DOMAIN fPc :
        AddressedByCaptionOnly(p) =>
            /\ fDown[p].text = fOrig[p].text
            /\ fDown[p].caption = IF fTrim THEN CaptionExcised(p) ELSE fOrig[p].caption

\* Exactly one entity of p's text addresses the bot, and it is a mention.
SingleMention(p) ==
    /\ Cardinality(Addressing(fOrig[p].text, fOrig[p].entities)) = 1
    /\ \A i \in Addressing(fOrig[p].text, fOrig[p].entities) :
           fOrig[p].entities[i].type = "mention"
\* What C11 promises downstream for p's update.
SingleMentionTrimmed(p) ==
    LET spans == {fOrig[p].entities[i] : i \in Addressing(fOrig[p].text, fOrig[p].entities)}
    IN  IF fTrim
        THEN [fOrig[p] EXCEPT !.text = WithoutSpans(fOrig[p].text, spans, 1)]
        ELSE fOrig[p]

\* C11 as stated (here only for messages that are no reply to the bot and
\* whose identity lookup succeeded): a group message whose text has exactly
\* one entity addressing the bot, a mention, reaches the downstream handler
\* with that entity's span removed when trimMention is set, and unchanged
\* otherwise.
C11_AsStated ==
    \A p \in DOMAIN fPc :
        (ScannedGroupEvent(p) /\ SingleMention(p)) =>
            fPc[p] = "done" /\ fDown[p] = SingleMentionTrimmed(p)

\* What holds of C11: the same, when no entity follows the mention in the list.
C11_LastEntityMention ==
    \A p \in DOMAIN fPc :
        (/\ ScannedGroupEvent(p)
         /\ SingleMention(p)
         /\ Addressing(fOrig[p].text, fOrig[p].entities) = {Len(fOrig[p].entities)}) =>
            fPc[p] = "done" /\ fDown[p] = SingleMentionTrimmed(p)

\* C12 as stated: with trimMention set, every entity of a field is tested
\* against the field as received, and the matched spans are removed once the
\* scan is over: the scan never faults, the message goes downstream exactly
\* when an entity of the received text addresses the bot, and when the
\* addressing entities are mentions or text mentions the downstream text is
\* the received text without their spans.
C12_AsStated ==
    \A p \in DOMAIN fPc :
        (ScannedGroupEvent(p) /\ fTrim /\ fOrig[p].text # <<>>) =>
            LET A == Addressing(fOrig[p].text, fOrig[p].entities)
                spans == {fOrig[p].entities[i] : i \in A}
            IN  /\ fPc[p] = "done"
                /\ (fDown[p] # NoUpdate) <=> (A # {})
                /\ (A # {} /\ \A e \in spans : e.type \in {"mention", "text_mention"}) =>
                       (fDown[p] = [fOrig[p] EXCEPT !.text = WithoutSpans(fOrig[p].text, spans, 1)])

\* Every entity of the list lies within the text.
WellFormed(text, entities) ==
    \A i \in 1..Len(entities) :
        entities[i].offset >= 0 /\ entities[i].offset + entities[i].length <= Len(text)

\* C26 as stated: with trimMention set, for every text and every entity
\* list whose entities lie within the text as received, two or more
\* entities addressing the bot included, checkMention never slices outside
\* the text it is holding: the scan of a group message does not panic.
C26_AsStated ==
    \A p \in DOMAIN fPc :
        (/\ fTrim
         /\ fOrig[p] # NoUpdate
         /\ GroupEvent(fOrig[p])
         /\ WellFormed(fOrig[p].text, fOrig[p].entities)
         /\ WellFormed(fOrig[p].caption, fOrig[p].capEntities)) =>
            fPc[p] # "panic"

(***************************************************************************)
(* Claims about the chain boundary                                         *)
(***************************************************************************)
\* C13: handler errors stop at the chain boundary.  When the composed handler
\* (the terminal handler or any middleware) returned a non-nil error, the
\* configured error handler has been invoked exactly once, with that error,
\* when the dispatch is over; when it returned nil the error handler has not
\* been invoked.  Before the boundary is reached nothing is handled.
C13_ErrorsStopAtBoundary ==
    /\ cPc = "done" /\ cRet \notin {Nil, NoResult} /\ cErrHandler => cHandled = <<cRet>>
    /\ cPc = "done" /\ cRet = Nil => cHandled = <<>>
    /\ cPc # "done" => cHandled = <<>>
    /\ Len(cHandled) <= 1

\* A middleware under another one aborted, and its error was handled once.
C13_Witness ==
    /\ cPc = "done"
    /\ cErrHandler
    /\ cRet \in OtherErrors
    /\ Len(cMws) >= 2
    /\ cMws[1] \in PassMiddlewares
    /\ cMws[2] \in AbortMiddlewares
    /\ cHandled = <<cRet>>

(***************************************************************************)
(* Claims about NewApp, Bind*, the auth and recovery middlewares (SpecApp) *)
(***************************************************************************)
\* The frame of the bound chain that is the auth middleware.
AuthPos == CHOOSE i \in 1..Len(aChain) : aChain[i] = Auth
Bound == aPc \notin {"idle", "new", "bind"}
\* The context resolves every extracted claim to its value.
CarriesClaims(ctx) ==
    aClaims \in ClaimMaps /\ \A k \in DOMAIN aClaims : Value(ctx, k) = aClaims[k]

\* C14 as stated: the auth middleware is outside every user middleware, the
\* globally registered ones and the per-route ones alike, so that once the
\* extractor has returned claims every user middleware of the dispatch was
\* invoked with a context that carries them.
C14_AsStated ==
    Bound =>
        /\ \A i \in 1..Len(aChain) : aChain[i] \in UserMws => AuthPos < i
        /\ \A j \in 1..Len(aLog) :
               (aLog[j].frame \in UserMws /\ aClaims \in ClaimMaps) => CarriesClaims(aLog[j].ctx)

\* C14: pipeline order of a bound route.  The chain is the globally
\* registered middlewares, then the auth middleware, then the per-route
\* middlewares, then the terminal handler: every per-route middleware is
\* invoked with the context overlaid with the extracted claims, every
\* globally registered middleware is invoked before the extractor, with the
\* incoming context; the recovery middleware is outside all of them: no
\* panic gets past it.
C14_PipelineOrder ==
    Bound =>
        /\ aChain = aGlobal \o <<Auth>> \o aRoute \o <<Terminal>>
        /\ \A j \in 1..Len(aLog) :
               /\ aLog[j].frame = aChain[j]
               /\ j <= AuthPos => aLog[j].ctx = aLog[1].ctx
               /\ j > AuthPos =>
                      /\ CarriesClaims(aLog[j].ctx)
                      /\ aLog[j].ctx = ContextWithValues(aLog[1].ctx, aClaims)
        /\ aPc # "crashed"

\* A dispatch went through a global middleware, the auth middleware with
\* claims, and a per-route middleware down to the terminal handler.
C14_Witness ==
    /\ aPc = "over"
    /\ aGlobal # <<>> /\ aRoute # <<>>
    /\ aClaims \in ClaimMaps /\ DOMAIN aClaims = ClaimKeys
    /\ Len(aLog) = Len(aChain)
    /\ Value(aLog[1].ctx, "uid") \notin {NoValue, aClaims["uid"]}
    /\ Value(aLog[Len(aLog)].ctx, "uid") = aClaims["uid"]

\* The auth middleware has called the extractor in this dispatch.
Extracted == Bound /\ aClaims # NoResult
\* The frames under the auth middleware that were invoked.
UnderAuth == {j \in 1..Len(aLog) : j > AuthPos}

\* C17: auth injection.  If the extractor returns an error, no frame under
\* the auth middleware is invoked, the composed handler returns that error,
\* and the error handler (if one is configured and no frame panics on the
\* way up) receives exactly it.  If the extractor returns claims, the frame
\* under the auth middleware is invoked with a context in which every claim
\* key resolves to its claim value; if it returns no claims, that frame is
\* invoked with the very context the auth middleware was invoked with.
C17_AuthInjection ==
    Extracted =>
        /\ aClaims = ErrAuth =>
               /\ UnderAuth = {}
               /\ aRet = ErrAuth
               /\ aPc \in {"boundary", "panic", "over"}
               /\ (aPc = "over" /\ aFault # "frame" /\ aErrHandler # "nil") =>
                      aHandled = <<ErrAuth>>
        /\ aClaims # ErrAuth =>
               /\ aDepth > AuthPos
               /\ aPc = "down" => Len(aLog) = aDepth - 1
               /\ \A j \in UnderAuth :
                      /\ \A k \in DOMAIN aClaims : Value(aLog[j].ctx, k) = aClaims[k]
                      /\ \A k \in ClaimKeys \ DOMAIN aClaims :
                             Value(aLog[j].ctx, k) = Value(aLog[AuthPos].ctx, k)
                      /\ aClaims = EmptyMap => aLog[j].ctx = aLog[AuthPos].ctx
               /\ (aPc = "down" /\ aClaims = EmptyMap) => aCtx = aLog[AuthPos].ctx
               /\ aPc = "down" => \A k \in DOMAIN aClaims : Value(aCtx, k) = aClaims[k]

\* The extractor returned a uid that the incoming context held with another
\* value, and the terminal handler was invoked with the extracted one.
C17_Witness ==
    /\ Extracted
    /\ aPc = "over"
    /\ aClaims \in ClaimMaps /\ DOMAIN aClaims = {"uid"}
    /\ Len(aLog) = Len(aChain)
    /\ Value(aLog[AuthPos].ctx, "uid") \notin {NoValue, aClaims["uid"]}
    /\ Value(aLog[Len(aLog)].ctx, "uid") = aClaims["uid"]
    /\ Value(aLog[Len(aLog)].ctx, "subject") = NoValue

\* C18: recovery.  A panic raised in a handler or middleware of a dispatch
\* never gets past the recovery middleware: the dispatch ends normally, the
\* error handler is not invoked for the panic (nothing is handled after it,
\* and nothing at all when the panic precedes the boundary), and the bot
\* takes the next update.
C18_Recovery ==
    /\ aPc # "crashed"
    /\ aFault = "frame" => aPc \in {"panic", "over"} /\ aHandled = <<>>
    /\ aFault = "errorHandler" => aPc \in {"panic", "over"} /\ aHandled = <<aRet>>
    /\ aPc = "panic" => aFault # "none" /\ ENABLED AppRecover
    /\ (aPc = "over" /\ aFault # "none") => ENABLED AppFinish
    /\ (aPc = "ready" /\ aDone < MaxAppDispatches) => ENABLED AppDispatch
    /\ aRecovered <= aDone + 1

\* After a dispatch that ended in a recovered panic, the next dispatch ran
\* down to the terminal handler and returned nil.
C18_Witness ==
    /\ aRecovered >= 1
    /\ aDone >= 1
    /\ aPc = "over"
    /\ aFault = "none"
    /\ Len(aLog) = Len(aChain)
    /\ aRet = Nil

\* C27 as stated: with the default options, when a handler returns an error
\* for a callback-query update (an update with no message), the default
\* error handler runs to completion without a runtime fault.
C27_AsStated ==
    (aErrHandler = "default" /\ aUpdate = "callback" /\ aHandled # <<>>) =>
        aFault # "errorHandler"

(***************************************************************************)
(* Claims about command routing (SpecCmd)                                  *)
(***************************************************************************)
\* The command token of a text: the text up to its first space.
CommandToken(text) ==
    LET S == {i \in 1..Len(text) : text[i] = " "}
    IN  IF S = {} THEN text ELSE SubSeq(text, 1, (CHOOSE i \in S : \A j \in S : i <= j) - 1)

\* C15 as stated: a route bound as "s" or as "/s" is registered under the
\* pattern "/s"; a route's handler runs only for a message whose command
\* token is exactly the route's pattern, and a message whose token is no
\* registered pattern goes to the default handler.
C15_AsStated ==
    /\ \A i \in 1..Len(cmdHandlers) :
           cmdHandlers[i].name \in {<<"s">>, <<"/", "s">>} => cmdHandlers[i].pattern = <<"/", "s">>
    /\ cmdPc = "done" =>
           /\ cmdInvoked.kind = "route" =>
                  CommandToken(cmdText) = cmdHandlers[cmdInvoked.index].pattern
           /\ (\A i \in 1..Len(cmdHandlers) : CommandToken(cmdText) # cmdHandlers[i].pattern)
                  => cmdInvoked = DefaultRoute

(***************************************************************************)
(* Claims about cancellation in the single-flight middleware (SpecSFCancel)*)
(***************************************************************************)
\* C16 as stated: a caller waiting for another caller's execution of its key
\* returns promptly once its own context is cancelled: from then on its
\* return does not depend on the execution in flight, it can return at once.
C16_AsStated ==
    \A p \in DOMAIN sfPc :
        (sfPc[p] = "waiting" /\ sfCtxDone[p]) => ENABLED SFWake(p)

(***************************************************************************)
(* Claims about MarshalData and UnmarshalData (SpecEnc)                    *)
(***************************************************************************)
\* C19: callback data round trip.  For every route without ":" and every
\* payload, UnmarshalData(MarshalData(route, v)) is (route, v, nil), also
\* when the serialized payload contains ":"; data without any ":" is
\* rejected with an error, an empty route and no payload.
C19_RoundTrip ==
    /\ (encPc = "done" /\ ColonsOf(encRoute) = {}) =>
           encOut = [route |-> encRoute, v |-> encPayload, err |-> Nil]
    /\ (encPc = "rawdone" /\ ColonsOf(encData) = {}) =>
           encOut = [route |-> <<>>, v |-> NoPayload, err |-> ErrFormat]

\* A payload whose text holds ":" and whose number has two digits came back.
C19_Witness ==
    /\ encPc = "done"
    /\ encRoute = <<"t">>
    /\ encPayload.number >= 10
    /\ ColonsOf(encPayload.text) # {}
    /\ encOut.err = Nil
    /\ encOut.v = encPayload

(***************************************************************************)
(* Claims about TmaAuth (SpecTma)                                          *)
(***************************************************************************)
\* The identity fields of the parsed claims equal those given to GenerateToken.
SameIdentity(parsed, claims) ==
    /\ parsed # NilClaims
    /\ parsed.userId = claims.userId
    /\ parsed.queryId = claims.queryId
    /\ parsed.canSendAfter = claims.canSendAfter
    /\ parsed.authDate = claims.authDate
Accepted == tmaOut.err = Nil /\ SameIdentity(tmaOut.claims, tmaClaims)
Rejected == tmaOut.err # Nil /\ tmaOut.claims = NilClaims
\* More than the max age has elapsed since the claims' auth timestamp.
Elapsed == tmaNow - tmaClaims.authDate > tmaExpIn

C21_ValueOverlay ==
    /\ (vPc \in {"wrapped", "looked"} /\ DOMAIN vData.entries = {}) => vCtx = vPrev
    /\ (vPc = "looked" /\ DOMAIN vData.entries # {}) =>
           IF vKey.type = "string" /\ vKey.name \in DOMAIN vData.entries
           THEN vOut = vData.entries[vKey.name]
           ELSE vOut = ValueAny(vPrev, vKey)
    /\ (vPc = "looked" /\ vWraps = 1 /\ DOMAIN vData.entries # {}
           /\ ~(vKey.type = "string" /\ vKey.name \in DOMAIN vData.entries)) =>
           vOut = IF vKey \in DOMAIN vPrev[1] THEN vPrev[1][vKey] ELSE NoValue

\* A lookup of a non-string key whose name the overlay holds returned the
\* value the base holds under that key, not the overlay's.
C21_Witness ==
    /\ vPc = "looked"
    /\ vWraps = 1
    /\ vKey.type = "ctxKey"
    /\ vKey.name \in DOMAIN vData.entries
    /\ vKey \in DOMAIN vPrev[1]
    /\ vOut = vPrev[1][vKey]
    /\ vOut # vData.entries[vKey.name]

(***************************************************************************)
(* Claims about NewSingleFlightMiddleware between windows (SpecSF)         *)
(***************************************************************************)
\* The callers inside sf.Do
InsideDo == {p \in DOMAIN sfPc : sfPc[p] \in {"running", "waiting"}}
\* p dispatched a callback query when no execution for its key was in flight.
DispatchedAfterWindow(p) ==
    /\ sfPc[p] # "idle"
    /\ sfUpd[p].kind = "callback"
    /\ sfSaw[p] = 0

\* C23: dedup holds no state between windows.  A key is registered only
\* while its execution is in flight; a callback query dispatched when no
\* execution for its origin message id is in flight executes the downstream
\* handler itself and receives the result of that execution; when no
\* dispatch is inside the middleware the registry is empty.
C23_NoStateBetweenWindows ==
    /\ \A k \in DOMAIN sfMap :
           sfMap[k] # 0 =>
               /\ ~sfCalls[sfMap[k]].done
               /\ \E p \in InsideDo : sfPc[p] = "running" /\ sfJoin[p] = sfMap[k]
    /\ \A p \in DOMAIN sfPc :
           DispatchedAfterWindow(p) =>
               /\ sfMine[p] # 0
               /\ sfPc[p] # "waiting"
               /\ \A q \in DOMAIN sfPc : (q # p /\ sfMine[q] # 0) => sfMine[q] # sfMine[p]
               /\ sfPc[p] = "done" => sfRet[p] = sfExec[sfMine[p]].res
    /\ InsideDo = {} => \A k \in DOMAIN sfMap : sfMap[k] = 0

\* Two callback queries with the same origin message id, the second
\* dispatched after the first had finished: each ran the handler, and they
\* got different results.
C23_Witness ==
    \E p, q \in DOMAIN sfPc :
        /\ p # q
        /\ sfPc[p] = "done" /\ sfPc[q] = "done"
        /\ sfUpd[p].kind = "callback" /\ sfUpd[q].kind = "callback"
        /\ sfUpd[p].msg = sfUpd[q].msg
        /\ sfMine[p] # 0 /\ sfMine[q] # 0 /\ sfMine[p] < sfMine[q]
        /\ sfSaw[q] = 0
        /\ sfRet[p] # Nil /\ sfRet[q] = Nil

(***************************************************************************)
(* Claims about binding several routes (SpecRt)                            *)
(***************************************************************************)
\* The elements of a sequence.
Elems(q) == {q[i] : i \in 1..Len(q)}
\* The chain is the global middlewares, then the route's own, then the handler.
Isolated(route) ==
    /\ route.chain = rtMws \o route.own \o <<Terminal>>
    /\ \A m \in BindMws : m \in Elems(route.chain) => m \in Elems(route.own)

\* C28: binding is isolated per route.  Binding a route with per-route
\* middlewares leaves the Bot's global middleware list unchanged, so after
\* any sequence of BindCommand, BindCallback and BindNoRoute calls each
\* route's chain is exactly the global middlewares followed by that route's
\* own per-route middlewares, and holds no middleware passed to another
\* Bind call.
C28_BindingIsolated ==
    rtPc = "bind" =>
        /\ rtMws = AppMiddlewares(rtGlobal)
        /\ \A i \in 1..Len(rtRoutes) : Isolated(rtRoutes[i])
        /\ rtNoRoute # NoResult => Isolated(rtNoRoute)

\* A command, then a callback route, then the fallback were bound, each with
\* a per-route middleware the next one does not have.
C28_Witness ==
    /\ rtPc = "bind"
    /\ Len(rtRoutes) = 2
    /\ rtRoutes[1].kind = "command" /\ rtRoutes[1].own = <<"r1">>
    /\ rtRoutes[2].kind = "callback" /\ rtRoutes[2].own = <<"r2">>
    /\ rtNoRoute # NoResult /\ rtNoRoute.own = <<>>
    /\ rtGlobal # <<>>
    /\ Isolated(rtRoutes[2]) /\ Isolated(rtNoRoute)

(***************************************************************************)
(* Specifications                                                          *)
(***************************************************************************)
InitRetry == RetryInit /\ BroadcastIdle /\ ChainIdle /\ SFIdle /\ FilterIdle /\ AppIdle /\ CmdIdle /\ SFCancelIdle /\ EncIdle /\ TmaIdle /\ ValIdle /\ RtIdle
SpecRetry == InitRetry /\ [][RetryNext]_vars

InitBroadcast == BroadcastInit /\ RetryIdle /\ ChainIdle /\ SFIdle /\ FilterIdle /\ AppIdle /\ CmdIdle /\ SFCancelIdle /\ EncIdle /\ TmaIdle /\ ValIdle /\ RtIdle
SpecBroadcast == InitBroadcast /\ [][BroadcastNext]_vars

InitChain == ChainInit /\ RetryIdle /\ BroadcastIdle /\ SFIdle /\ FilterIdle /\ AppIdle /\ CmdIdle /\ SFCancelIdle /\ EncIdle /\ TmaIdle /\ ValIdle /\ RtIdle
SpecChain == InitChain /\ [][ChainNext]_vars

InitSF == SFInit /\ RetryIdle /\ BroadcastIdle /\ ChainIdle /\ FilterIdle /\ AppIdle /\ CmdIdle /\ SFCancelIdle /\ EncIdle /\ TmaIdle /\ ValIdle /\ RtIdle
SpecSF == InitSF /\ [][SFNext]_vars

InitFilter == FilterInit /\ RetryIdle /\ BroadcastIdle /\ ChainIdle /\ SFIdle /\ AppIdle /\ CmdIdle /\ SFCancelIdle /\ EncIdle /\ TmaIdle /\ ValIdle /\ RtIdle
SpecFilter == InitFilter /\ [][FilterNext]_vars
SpecIdentity == InitFilter /\ [][IdentityNext]_vars
SpecScan == InitFilter /\ [][ScanNext]_vars

InitApp == AppInit /\ RetryIdle /\ BroadcastIdle /\ ChainIdle /\ SFIdle /\ FilterIdle /\ CmdIdle /\ SFCancelIdle /\ EncIdle /\ TmaIdle /\ ValIdle /\ RtIdle
SpecApp == InitApp /\ [][AppNext]_vars

InitCmd == CmdInit /\ RetryIdle /\ BroadcastIdle /\ ChainIdle /\ SFIdle /\ FilterIdle /\ AppIdle /\ SFCancelIdle /\ EncIdle /\ TmaIdle /\ ValIdle /\ RtIdle
SpecCmd == InitCmd /\ [][CmdNext]_vars

InitSFCancel == SFInit /\ SFCancelInit /\ RetryIdle /\ BroadcastIdle /\ ChainIdle /\ FilterIdle /\ AppIdle /\ CmdIdle /\ EncIdle /\ TmaIdle /\ ValIdle /\ RtIdle
SpecSFCancel == InitSFCancel /\ [][SFCancelNext]_vars

InitEnc == EncInit /\ RetryIdle /\ BroadcastIdle /\ ChainIdle /\ SFIdle /\ FilterIdle /\ AppIdle /\ CmdIdle /\ SFCancelIdle /\ TmaIdle /\ ValIdle /\ RtIdle
SpecEnc == InitEnc /\ [][EncNext]_vars

InitTma == TmaInit /\ RetryIdle /\ BroadcastIdle /\ ChainIdle /\ SFIdle /\ FilterIdle /\ AppIdle /\ CmdIdle /\ SFCancelIdle /\ EncIdle /\ ValIdle /\ RtIdle
SpecTma == InitTma /\ [][TmaNext]_vars

InitVal == ValInit /\ RetryIdle /\ BroadcastIdle /\ ChainIdle /\ SFIdle /\ FilterIdle /\ AppIdle /\ CmdIdle /\ SFCancelIdle /\ EncIdle /\ TmaIdle /\ RtIdle
SpecVal == InitVal /\ [][ValNext]_vars

InitRt == RtInit /\ RetryIdle /\ BroadcastIdle /\ ChainIdle /\ SFIdle /\ FilterIdle /\ AppIdle /\ CmdIdle /\ SFCancelIdle /\ EncIdle /\ TmaIdle /\ ValIdle
SpecRt == InitRt /\ [][RtNext]_vars

====
